---------------------------- MODULE Spec2Model ----------------------------
(***************************************************************************)
(* A model of Granite.AS3, the schema compiler of this repository          *)
(* (src/Granite.py): the normalizer Struct_ with its per-type handlers,    *)
(* the code generator Python_ with its per-type handlers (modelled by the  *)
(* meaning of the code they generate), and the validator object's life:    *)
(* construction, compilation and calls.                                    *)
(*                                                                         *)
(* Python values are tagged records.  A Python str is a sequence of        *)
(* one-character strings, so that endswith('?'), startswith('+'), strip(), *)
(* len() and int() are computed on the characters.  A Python dict is the   *)
(* insertion-ordered sequence of its <<key, value>> pairs.                 *)
(***************************************************************************)
EXTENDS Integers, Sequences, FiniteSets, TLC

(***************************************************************************)
(* Python values                                                           *)
(***************************************************************************)
None == [t |-> "None"]
Undefined == [t |-> "Undefined"]
BoolV(b) == [t |-> "bool", b |-> b]
IntV(n) == [t |-> "int", n |-> n]
FloatV(n) == [t |-> "float", n |-> n]
StrV(s) == [t |-> "str", s |-> s]
ListV(xs) == [t |-> "list", xs |-> xs]
DictV(kv) == [t |-> "dict", kv |-> kv]
SetV(S) == [t |-> "set", S |-> S]
\* A reference to an object the caller of AS3 owns and may mutate later.
Ref(i) == [t |-> "ref", id |-> i]

True == BoolV(TRUE)
False == BoolV(FALSE)
EmptyStr == StrV(<<>>)

\* An exception in flight: its class and str(e).
Exc(kind, msg) == [kind |-> kind, msg |-> msg]
NoExc == [kind |-> "", msg |-> ""]

IsNumeric(v) == v.t \in {"bool", "int", "float"}
NumVal(v) == IF v.t = "bool" THEN (IF v.b THEN 1 ELSE 0) ELSE v.n

\* Python's == on the values of the model: True == 1 == 1.0.
PyEq(a, b) ==
  IF IsNumeric(a) /\ IsNumeric(b) THEN NumVal(a) = NumVal(b) ELSE a = b

\* A value is hashable unless it is a list, a dict or a set.
Hashable(v) == v.t \notin {"list", "dict", "set"}

\* bool(v)
PyBool(v) ==
  CASE v.t = "None" -> FALSE
    [] v.t = "Undefined" -> FALSE
    [] v.t = "bool" -> v.b
    [] v.t \in {"int", "float"} -> v.n # 0
    [] v.t = "str" -> v.s # <<>>
    [] v.t = "list" -> v.xs # <<>>
    [] v.t = "dict" -> v.kv # <<>>
    [] v.t = "set" -> v.S # {}
    [] OTHER -> TRUE

(***************************************************************************)
(* dict operations                                                         *)
(***************************************************************************)
KeyIndex(d, k) ==
  LET I == {i \in DOMAIN d.kv : PyEq(d.kv[i][1], k)}
  IN IF I = {} THEN 0 ELSE CHOOSE i \in I : TRUE

HasKey(d, k) == KeyIndex(d, k) # 0

\* d.get(k, dflt)
DictGet(d, k, dflt) == IF HasKey(d, k) THEN d.kv[KeyIndex(d, k)][2] ELSE dflt

\* d without key k (the dict left by d.pop(k) / d.pop(k, dflt))
DictDel(d, k) ==
  DictV(SelectSeq(d.kv, LAMBDA p : ~PyEq(p[1], k)))

\* d[k] = v
DictSet(d, k, v) ==
  IF HasKey(d, k)
  THEN DictV([d.kv EXCEPT ![KeyIndex(d, k)] = <<d.kv[KeyIndex(d, k)][1], v>>])
  ELSE DictV(Append(d.kv, <<k, v>>))

\* the keys, in insertion order
DictKeys(d) == [i \in DOMAIN d.kv |-> d.kv[i][1]]

KeySet(d) == {d.kv[i][1] : i \in DOMAIN d.kv}

\* s.add(v)
SetAdd(s, v) ==
  IF \E e \in s.S : PyEq(e, v) THEN s ELSE SetV(s.S \cup {v})

(***************************************************************************)
(* str operations                                                          *)
(***************************************************************************)
Whitespace == {" "}
DigitChars == <<"0", "1", "2", "3", "4", "5", "6", "7", "8", "9">>
IsDigit(c) == \E i \in DOMAIN DigitChars : DigitChars[i] = c
DigitValue(c) == (CHOOSE i \in DOMAIN DigitChars : DigitChars[i] = c) - 1

EndsWith(s, c) == Len(s) > 0 /\ s[Len(s)] = c
StartsWith(s, c) == Len(s) > 0 /\ s[1] = c
\* s.removesuffix(c) for a one-character suffix
RemoveSuffix(s, c) == IF EndsWith(s, c) THEN SubSeq(s, 1, Len(s) - 1) ELSE s

RECURSIVE LStrip(_)
LStrip(s) == IF s # <<>> /\ Head(s) \in Whitespace THEN LStrip(Tail(s)) ELSE s
RECURSIVE RStrip(_)
RStrip(s) ==
  IF s # <<>> /\ s[Len(s)] \in Whitespace
  THEN RStrip(SubSeq(s, 1, Len(s) - 1)) ELSE s
\* s.strip()
Strip(s) == RStrip(LStrip(s))

RECURSIVE DigitsValue(_)
DigitsValue(s) ==
  IF s = <<>> THEN 0
  ELSE 10 * DigitsValue(SubSeq(s, 1, Len(s) - 1)) + DigitValue(s[Len(s)])

AllDigits(s) == s # <<>> /\ \A i \in DOMAIN s : IsDigit(s[i])

\* An integer literal as int() and float() read it: surrounding whitespace,
\* an optional sign, digits.  (The strings of the model hold no '.', 'e' or
\* '_', so a float literal is an integer literal.)
IsIntLiteral(s) ==
  LET u == Strip(s)
  IN IF u # <<>> /\ u[1] \in {"-", "+"} THEN AllDigits(Tail(u)) ELSE AllDigits(u)
IntLiteralValue(s) ==
  LET u == Strip(s)
  IN IF u[1] = "-" THEN 0 - DigitsValue(Tail(u))
     ELSE IF u[1] = "+" THEN DigitsValue(Tail(u))
     ELSE DigitsValue(u)

RECURSIVE NatDigits(_)
NatDigits(n) ==
  IF n < 10 THEN <<DigitChars[n + 1]>>
  ELSE NatDigits(n \div 10) \o <<DigitChars[(n % 10) + 1]>>
IntDigits(n) == IF n < 0 THEN <<"-">> \o NatDigits(0 - n) ELSE NatDigits(n)

RECURSIVE Repr(_)
RECURSIVE ReprItems(_)
RECURSIVE ReprPairs(_)
\* repr(v), as characters
Repr(v) ==
  CASE v.t = "None" -> <<"N", "o", "n", "e">>
    [] v.t = "Undefined" -> <<"U", "n", "d", "e", "f", "i", "n", "e", "d">>
    [] v.t = "bool" -> IF v.b THEN <<"T", "r", "u", "e">>
                              ELSE <<"F", "a", "l", "s", "e">>
    [] v.t = "int" -> IntDigits(v.n)
    [] v.t = "float" -> IntDigits(v.n) \o <<".", "0">>
    [] v.t = "str" -> <<"'">> \o v.s \o <<"'">>
    [] v.t = "list" -> <<"[">> \o ReprItems(v.xs) \o <<"]">>
    [] v.t = "dict" -> <<"{">> \o ReprPairs(v.kv) \o <<"}">>
    [] OTHER -> <<"?">>
ReprItems(xs) ==
  IF xs = <<>> THEN <<>>
  ELSE IF Len(xs) = 1 THEN Repr(xs[1])
  ELSE Repr(xs[1]) \o <<",", " ">> \o ReprItems(Tail(xs))
ReprPairs(kv) ==
  IF kv = <<>> THEN <<>>
  ELSE LET one == Repr(kv[1][1]) \o <<":", " ">> \o Repr(kv[1][2])
       IN IF Len(kv) = 1 THEN one ELSE one \o <<",", " ">> \o ReprPairs(Tail(kv))

\* str(v): a str is itself, anything else its repr
PyStr(v) == IF v.t = "str" THEN v ELSE StrV(Repr(v))

\* int(v): [ok, val] or [ok = FALSE, exc]
PyInt(v) ==
  CASE v.t = "int" -> [ok |-> TRUE, val |-> v, exc |-> NoExc]
    [] v.t = "bool" -> [ok |-> TRUE, val |-> IntV(NumVal(v)), exc |-> NoExc]
    [] v.t = "float" -> [ok |-> TRUE, val |-> IntV(v.n), exc |-> NoExc]
    [] v.t = "str" ->
         IF IsIntLiteral(v.s)
         THEN [ok |-> TRUE, val |-> IntV(IntLiteralValue(v.s)), exc |-> NoExc]
         ELSE [ok |-> FALSE, val |-> Undefined,
               exc |-> Exc("ValueError", "invalid literal for int() with base 10")]
    [] OTHER -> [ok |-> FALSE, val |-> Undefined,
                 exc |-> Exc("TypeError", "int() argument must be a string or a number")]

\* float(v)
PyFloat(v) ==
  CASE IsNumeric(v) -> [ok |-> TRUE, val |-> FloatV(NumVal(v)), exc |-> NoExc]
    [] v.t = "str" ->
         IF IsIntLiteral(v.s)
         THEN [ok |-> TRUE, val |-> FloatV(IntLiteralValue(v.s)), exc |-> NoExc]
         ELSE [ok |-> FALSE, val |-> Undefined,
               exc |-> Exc("ValueError", "could not convert string to float")]
    [] OTHER -> [ok |-> FALSE, val |-> Undefined,
                 exc |-> Exc("TypeError", "float() argument must be a string or a number")]

\* `s in (None, '')`
IsNoneOrEmpty(s) == s = None \/ s = EmptyStr

STRN(s) ==
  IF IsNoneOrEmpty(s) THEN [ok |-> TRUE, val |-> None, exc |-> NoExc]
  ELSE [ok |-> TRUE, val |-> PyStr(s), exc |-> NoExc]

BOOLN(s) ==
  IF IsNoneOrEmpty(s) THEN [ok |-> TRUE, val |-> None, exc |-> NoExc]
  ELSE [ok |-> TRUE, val |-> BoolV(PyBool(s)), exc |-> NoExc]

INTN(s) ==
  IF IsNoneOrEmpty(s) THEN [ok |-> TRUE, val |-> None, exc |-> NoExc]
  ELSE PyInt(s)

\* Decimal(s) at module level of Granite.py, where Decimal is imported; a
\* decimal is kept as a float of the model.
DECIMALN(s) ==
  IF IsNoneOrEmpty(s) THEN [ok |-> TRUE, val |-> None, exc |-> NoExc]
  ELSE IF s.t = "str" /\ ~IsIntLiteral(s.s)
  THEN [ok |-> FALSE, val |-> Undefined, exc |-> Exc("InvalidOperation", "ConversionSyntax")]
  ELSE PyFloat(s)

(***************************************************************************)
(* The attribute names and type tags of the schema declaration format      *)
(***************************************************************************)
K_Source == StrV(<<"+", "S", "o", "u", "r", "c", "e">>)
K_Type == StrV(<<"+", "T", "y", "p", "e">>)
K_None == StrV(<<"+", "N", "o", "n", "e">>)
K_Label == StrV(<<"+", "L", "a", "b", "e", "l">>)
K_Help == StrV(<<"+", "H", "e", "l", "p">>)
K_Default == StrV(<<"+", "D", "e", "f", "a", "u", "l", "t">>)
K_MaxValue == StrV(<<"+", "M", "a", "x", "V", "a", "l", "u", "e">>)
K_MinValue == StrV(<<"+", "M", "i", "n", "V", "a", "l", "u", "e">>)
K_Values == StrV(<<"+", "V", "a", "l", "u", "e", "s">>)
K_MaxLength == StrV(<<"+", "M", "a", "x", "L", "e", "n", "g", "t", "h">>)
K_MinLength == StrV(<<"+", "M", "i", "n", "L", "e", "n", "g", "t", "h">>)
K_Strip == StrV(<<"+", "S", "t", "r", "i", "p">>)
K_Regex == StrV(<<"+", "R", "e", "g", "e", "x">>)
K_Extra == StrV(<<"+", "E", "x", "t", "r", "a">>)
K_KeyType == StrV(<<"+", "K", "e", "y", "T", "y", "p", "e">>)
K_ValueType == StrV(<<"+", "V", "a", "l", "u", "e", "T", "y", "p", "e">>)
K_Length == StrV(<<"+", "L", "e", "n", "g", "t", "h">>)
T_Type == StrV(<<"T", "y", "p", "e">>)
T_Boolean == StrV(<<"B", "o", "o", "l", "e", "a", "n">>)
T_Integer == StrV(<<"I", "n", "t", "e", "g", "e", "r">>)
T_Decimal == StrV(<<"D", "e", "c", "i", "m", "a", "l">>)
T_Float == StrV(<<"F", "l", "o", "a", "t">>)
T_Enum == StrV(<<"E", "n", "u", "m">>)
T_String == StrV(<<"S", "t", "r", "i", "n", "g">>)
T_Email == StrV(<<"E", "m", "a", "i", "l">>)
T_Object == StrV(<<"O", "b", "j", "e", "c", "t">>)
T_Map == StrV(<<"M", "a", "p">>)
T_Set == StrV(<<"S", "e", "t">>)
T_List == StrV(<<"L", "i", "s", "t">>)

\* StructPath of a validator built without one: ('<Data>',)
DataPath == <<StrV(<<"<", "D", "a", "t", "a", ">">>)>>

(***************************************************************************)
(* The normalizer: AS3.Struct_ and the Struct_<Type> handlers.             *)
(* A handler receives the declaration left to consume (StructIn) and the   *)
(* node under construction (Struct) and changes both; here it returns      *)
(* both, or the exception it raised.  mem is the memory holding the        *)
(* objects the declaration refers to (see Ref).                            *)
(***************************************************************************)
HOk(StructIn, Struct) ==
  [ok |-> TRUE, StructIn |-> StructIn, Struct |-> Struct, exc |-> NoExc]
HFail(exc) == [ok |-> FALSE, StructIn |-> None, Struct |-> None, exc |-> exc]
SOk(Struct) == [ok |-> TRUE, Struct |-> Struct, exc |-> NoExc]
SFail(exc) == [ok |-> FALSE, Struct |-> None, exc |-> exc]

\* "/".join(StructPath)
RECURSIVE JoinPath(_)
JoinPath(StructPath) ==
  IF Len(StructPath) = 1 THEN StructPath[1].s
  ELSE JoinPath(SubSeq(StructPath, 1, Len(StructPath) - 1))
         \o <<"/">> \o StructPath[Len(StructPath)].s

\* the object a value denotes: a reference is read through the memory
Deref(mem, v) == IF v.t = "ref" THEN mem[v.id] ELSE v

\* A plausible slip: the default is stored as given, still shared with the
\* declaration.
DeepCopy_shared(mem, v) == v

\* copy.deepcopy(v): a value of its own, equal to the object v denotes now
DeepCopy(mem, v) == Deref(mem, v)

Struct_Type(StructPath, StructIn, Struct) == HOk(StructIn, Struct)

Struct_Boolean(StructPath, StructIn, Struct) == HOk(StructIn, Struct)

\* Both entries are read from '+MaxValue': the second pop finds the key
\* gone, and '+MinValue' is never popped from StructIn.
Struct_Integer(StructPath, StructIn, Struct) ==
  LET a == INTN(DictGet(StructIn, K_MaxValue, None))
      SI1 == DictDel(StructIn, K_MaxValue)
      b == INTN(DictGet(SI1, K_MaxValue, None))
      SI2 == DictDel(SI1, K_MaxValue)
  IN IF ~a.ok THEN HFail(a.exc)
     ELSE IF ~b.ok THEN HFail(b.exc)
     ELSE HOk(SI2, DictSet(DictSet(Struct, K_MaxValue, a.val), K_MinValue, b.val))

Struct_Decimal(StructPath, StructIn, Struct) ==
  LET a == DECIMALN(DictGet(StructIn, K_MaxValue, None))
      SI1 == DictDel(StructIn, K_MaxValue)
      b == DECIMALN(DictGet(SI1, K_MaxValue, None))
      SI2 == DictDel(SI1, K_MaxValue)
  IN IF ~a.ok THEN HFail(a.exc)
     ELSE IF ~b.ok THEN HFail(b.exc)
     ELSE HOk(SI2, DictSet(DictSet(Struct, K_MaxValue, a.val), K_MinValue, b.val))

Struct_Float(StructPath, StructIn, Struct) ==
  Struct_Decimal(StructPath, StructIn, Struct)

Struct_Enum(StructPath, StructIn, Struct) ==
  IF HasKey(StructIn, K_Values)
  THEN HOk(DictDel(StructIn, K_Values),
           DictSet(Struct, K_Values, DictGet(StructIn, K_Values, None)))
  ELSE HFail(Exc("KeyError", "+Values"))

Struct_String(StructPath, StructIn, Struct) ==
  LET a == INTN(DictGet(StructIn, K_MaxLength, None))
      b == INTN(DictGet(StructIn, K_MinLength, None))
      c == BOOLN(DictGet(StructIn, K_Strip, True))
      d == STRN(DictGet(StructIn, K_Regex, None))
      SI == DictDel(DictDel(DictDel(DictDel(StructIn, K_MaxLength), K_MinLength),
                            K_Strip), K_Regex)
  IN IF ~a.ok THEN HFail(a.exc)
     ELSE IF ~b.ok THEN HFail(b.exc)
     ELSE HOk(SI, DictSet(DictSet(DictSet(DictSet(Struct,
                K_MaxLength, a.val), K_MinLength, b.val), K_Strip, c.val),
                K_Regex, d.val))

Struct_Email(StructPath, StructIn, Struct) ==
  Struct_String(StructPath, StructIn, Struct)

RECURSIVE Struct_(_, _, _)
RECURSIVE Struct_ObjectFields(_, _, _, _, _)

\* the loop `for k in tuple(StructIn)` of Struct_Object, over the keys left
Struct_ObjectFields(mem, StructPath, keys, StructIn, Struct) ==
  IF keys = <<>> THEN HOk(StructIn, Struct)
  ELSE LET k == Head(keys)
           \* Struct[k] = self.Struct_(StructPath + (k,), StructIn.pop(k))
           Field(r) ==
             IF ~r.ok THEN HFail(r.exc)
             ELSE Struct_ObjectFields(mem, StructPath, Tail(keys),
                    DictDel(StructIn, k), DictSet(Struct, k, r.Struct))
       IN IF StartsWith(k.s, "+")
          THEN Struct_ObjectFields(mem, StructPath, Tail(keys), StructIn, Struct)
          ELSE Field(Struct_(mem, Append(StructPath, k), DictGet(StructIn, k, None)))

Struct_Object(mem, StructPath, StructIn, Struct) ==
  LET e == BOOLN(DictGet(StructIn, K_Extra, False))
      SI == DictDel(StructIn, K_Extra)
  IN Struct_ObjectFields(mem, StructPath, DictKeys(SI), SI,
                         DictSet(Struct, K_Extra, e.val))

\* `if slot in StructIn: Struct[slot] = self.Struct_(...) else: raise TypeError`
Struct_Slot(mem, StructPath, StructIn, Struct, slot) ==
  LET Store(r) ==
        IF ~r.ok THEN HFail(r.exc)
        ELSE HOk(DictDel(StructIn, slot), DictSet(Struct, slot, r.Struct))
  IN IF HasKey(StructIn, slot)
     THEN Store(Struct_(mem, Append(StructPath, slot), DictGet(StructIn, slot, None)))
     ELSE HFail(Exc("TypeError", "Missing type slot"))

Struct_Map(mem, StructPath, StructIn, Struct) ==
  LET Value(k) ==
        IF ~k.ok THEN k
        ELSE Struct_Slot(mem, StructPath, k.StructIn, k.Struct, K_ValueType)
  IN Value(Struct_Slot(mem, StructPath, StructIn, Struct, K_KeyType))

Struct_Set(mem, StructPath, StructIn, Struct) ==
  Struct_Slot(mem, StructPath, StructIn, Struct, K_ValueType)

Struct_List(mem, StructPath, StructIn, Struct) ==
  LET a == INTN(DictGet(StructIn, K_Length, None))
      b == INTN(DictGet(StructIn, K_MaxLength, None))
      c == INTN(DictGet(StructIn, K_MinLength, None))
      SI == DictDel(DictDel(DictDel(StructIn, K_Length), K_MaxLength), K_MinLength)
  IN IF ~a.ok THEN HFail(a.exc)
     ELSE IF ~b.ok THEN HFail(b.exc)
     ELSE IF ~c.ok THEN HFail(c.exc)
     ELSE Struct_Slot(mem, StructPath, SI,
            DictSet(DictSet(DictSet(Struct, K_Length, a.val), K_MaxLength, b.val),
                    K_MinLength, c.val),
            K_ValueType)

\* A shorthand that drops the '?' without setting '+None'.
Struct_Shorthand_strict(StructIn) ==
  IF StructIn.t = "str"
  THEN DictV(<< <<K_Type, StrV(RemoveSuffix(StructIn.s, "?"))>> >>)
  ELSE StructIn

\* The bare-string shorthand: 'T' is {'+Type': 'T'}, 'T?' is
\* {'+Type': 'T', '+None': True}.
Struct_Shorthand(StructIn) ==
  IF StructIn.t = "str"
  THEN IF EndsWith(StructIn.s, "?")
       THEN DictV(<< <<K_Type, StrV(RemoveSuffix(StructIn.s, "?"))>>, <<K_None, True>> >>)
       ELSE DictV(<< <<K_Type, StructIn>> >>)
  ELSE StructIn

\* The try block of Struct_: '+Source', '+Type', '+None', '+Label', '+Help'.
Struct_Head(StructPath, StructIn) ==
  LET Source == DictGet(StructIn, K_Source, None)
      SI1 == DictDel(StructIn, K_Source)
      Type == DictGet(SI1, K_Type, None)
      SI2 == DictDel(SI1, K_Type)
      S1 == DictV(<< <<K_Source, Source>> >>)
      Rest(SI, S) ==
        LET Label == DictGet(SI, K_Label, StructPath[Len(StructPath)])
            Help == DictGet(SI, K_Help, None)
        IN HOk(DictDel(DictDel(SI, K_Label), K_Help),
               DictSet(DictSet(S, K_Label, Label), K_Help, Help))
  IN IF ~HasKey(SI1, K_Type) THEN HFail(Exc("TypeError", "KeyError at path"))
     ELSE IF Type.t # "str" THEN HFail(Exc("AttributeError", "no attribute endswith"))
     ELSE IF EndsWith(Type.s, "?")
     THEN IF HasKey(SI2, K_None)
          THEN HFail(Exc("TypeError", "+Type ended with ? yet +None was specified"))
          ELSE Rest(SI2, DictSet(DictSet(S1, K_Type, StrV(RemoveSuffix(Type.s, "?"))),
                                 K_None, True))
     ELSE Rest(DictDel(SI2, K_None),
               DictSet(DictSet(S1, K_Type, Type), K_None,
                       BoolV(PyBool(DictGet(SI2, K_None, False)))))

\* getattr(self, 'Struct_' + Type)(StructPath, StructIn, Struct)
Struct_Dispatch(mem, StructPath, StructIn, Struct) ==
  LET Type == DictGet(Struct, K_Type, None)
  IN CASE Type = T_Type -> Struct_Type(StructPath, StructIn, Struct)
       [] Type = T_Boolean -> Struct_Boolean(StructPath, StructIn, Struct)
       [] Type = T_Integer -> Struct_Integer(StructPath, StructIn, Struct)
       [] Type = T_Decimal -> Struct_Decimal(StructPath, StructIn, Struct)
       [] Type = T_Float -> Struct_Float(StructPath, StructIn, Struct)
       [] Type = T_Enum -> Struct_Enum(StructPath, StructIn, Struct)
       [] Type = T_String -> Struct_String(StructPath, StructIn, Struct)
       [] Type = T_Email -> Struct_Email(StructPath, StructIn, Struct)
       [] Type = T_Object -> Struct_Object(mem, StructPath, StructIn, Struct)
       [] Type = T_Map -> Struct_Map(mem, StructPath, StructIn, Struct)
       [] Type = T_Set -> Struct_Set(mem, StructPath, StructIn, Struct)
       [] Type = T_List -> Struct_List(mem, StructPath, StructIn, Struct)
       \* 'Struct_' + '' names Struct_ itself, called with one argument too many
       [] Type = EmptyStr -> HFail(Exc("TypeError", "Struct_() takes 3 positional arguments"))
       [] OTHER -> HFail(Exc("TypeError", "Unrecognized type"))

\* The end of Struct_: '+Default' is deep-copied, and what is left of
\* StructIn must be keys of Struct.
Struct_Tail(mem, StructIn, Struct) ==
  LET Default == DeepCopy(mem, DictGet(StructIn, K_Default, None))
      SI == DictDel(StructIn, K_Default)
      S == DictSet(Struct, K_Default, Default)
      extra == KeySet(SI) \ KeySet(S)
  IN IF extra # {} THEN SFail(Exc("TypeError", "Unrecognized attributes"))
     ELSE SOk(S)

Struct_(mem, StructPath, StructIn) ==
  LET Tail_(d) == IF ~d.ok THEN SFail(d.exc) ELSE Struct_Tail(mem, d.StructIn, d.Struct)
      Type_(h) == IF ~h.ok THEN SFail(h.exc)
                  ELSE Tail_(Struct_Dispatch(mem, StructPath, h.StructIn, h.Struct))
      Head_(SI0) == IF SI0.t # "dict" THEN SFail(Exc("TypeError", "object is not iterable"))
                    ELSE Type_(Struct_Head(StructPath, SI0))
  IN Head_(Struct_Shorthand(StructIn))

(***************************************************************************)
(* The generated code.  AS3.Python and the Python_<Type> methods emit the  *)
(* text of one function; each is modelled by what the lines it emits do to *)
(* the function's local variables when they run.  st is the state of one   *)
(* run of the generated function:                                          *)
(*   env      its local variables (vi<d>, vo<d>, vi<d>k, ...), by name     *)
(*   errs     the list `errs`                                              *)
(*   exc      the exception propagating, NoExc when none                   *)
(*   visited  the nodes whose code was entered, with the input each saw    *)
(*   handled  the nodes whose type handler code was entered                *)
(*   done     the nodes whose code was left, in the order they were left,  *)
(*            each with its node, its input, whether its handler ran and   *)
(*            on which value,                                              *)
(*            whether it caught a fault, the records appended while it ran,*)
(*            the list errs when it was entered and when it was left,      *)
(*            its output variable at the end, its depth, what the names    *)
(*            given as KeyVar and ValueVar held when it was entered, and   *)
(*            the local variables when it was entered and when it was left *)
(* visited and handled are not variables of the code: they record the      *)
(* traversal.                                                              *)
(***************************************************************************)
Var(name, VarDepth, suffix) == <<name, VarDepth, suffix>>
vi(VarDepth) == Var("vi", VarDepth, "")
vo(VarDepth) == Var("vo", VarDepth, "")
\* KeyVar=None, ValueVar=None: the text "None" is emitted
NoneVar == Var("None", 0, "")

\* A name that read the variable of the next depth when there is one.
Eval_nested(st, name) ==
  IF name = NoneVar THEN None
  ELSE IF Var(name[1], name[2] + 1, "") \in DOMAIN st.env
  THEN st.env[Var(name[1], name[2] + 1, "")]
  ELSE st.env[name]

\* The value of the name given as KeyVar or ValueVar, where a record is made.
Eval(st, name) == IF name = NoneVar THEN None ELSE st.env[name]
SetVar(st, name, v) == [st EXCEPT !.env = (name :> v) @@ @]
Raise(st, kind, msg) == [st EXCEPT !.exc = Exc(kind, msg)]
Raised(st) == st.exc.kind # ""

\* The elements `for e in v` yields; a set is read in one fixed order.
RECURSIVE SetOrder(_)
SetOrder(S) ==
  IF S = {} THEN <<>>
  ELSE LET e == CHOOSE e \in S : TRUE IN <<e>> \o SetOrder(S \ {e})
Iterable(v) == v.t \in {"str", "list", "dict", "set"}
Iter(v) ==
  CASE v.t = "list" -> v.xs
    [] v.t = "str" -> [i \in DOMAIN v.s |-> StrV(<<v.s[i]>>)]
    [] v.t = "dict" -> DictKeys(v)
    [] v.t = "set" -> SetOrder(v.S)

\* The regular expressions of the model.
R_Digits == StrV(<<"^", "[", "0", "-", "9", "]", "+", "$">>)
R_Any == StrV(<<".", "*">>)
\* re.match(p, s): [ok, val] with val the truth of the match
ReMatch(p, s) ==
  CASE p = R_Digits -> [ok |-> TRUE, val |-> AllDigits(s.s), exc |-> NoExc]
    [] p = R_Any -> [ok |-> TRUE, val |-> TRUE, exc |-> NoExc]
    [] OTHER -> [ok |-> FALSE, val |-> FALSE, exc |-> Exc("error", "bad regular expression")]

\* `v in c`
Contains(c, v) ==
  CASE c.t = "list" ->
         [ok |-> TRUE, val |-> \E i \in DOMAIN c.xs : PyEq(c.xs[i], v), exc |-> NoExc]
    [] c.t = "dict" /\ Hashable(v) -> [ok |-> TRUE, val |-> HasKey(c, v), exc |-> NoExc]
    [] c.t = "dict" -> [ok |-> FALSE, val |-> FALSE, exc |-> Exc("TypeError", "unhashable type")]
    [] OTHER -> [ok |-> FALSE, val |-> FALSE, exc |-> Exc("TypeError", "argument is not iterable")]

Python_Type(StructPath, Struct, VarDepth, st) ==
  SetVar(st, vo(VarDepth), st.env[vi(VarDepth)])

Python_Boolean(StructPath, Struct, VarDepth, st) ==
  SetVar(st, vo(VarDepth), BoolV(PyBool(st.env[vi(VarDepth)])))

\* vo = int(vi): no range check is emitted
Python_Integer(StructPath, Struct, VarDepth, st) ==
  LET Assign(r) == IF r.ok THEN SetVar(st, vo(VarDepth), r.val)
                   ELSE [st EXCEPT !.exc = r.exc]
  IN Assign(PyInt(st.env[vi(VarDepth)]))

\* vo = Decimal(vi): the generated function imports collections, re, aadict
\* and Undefined only, and is exec'd with empty globals, so the name Decimal
\* is not defined where the line runs.
Python_Decimal(StructPath, Struct, VarDepth, st) ==
  Raise(st, "NameError", "name 'Decimal' is not defined")

Python_Float(StructPath, Struct, VarDepth, st) ==
  LET Assign(r) == IF r.ok THEN SetVar(st, vo(VarDepth), r.val)
                   ELSE [st EXCEPT !.exc = r.exc]
  IN Assign(PyFloat(st.env[vi(VarDepth)]))

Python_Enum(StructPath, Struct, VarDepth, st) ==
  LET Test(st1, r) ==
        IF ~r.ok THEN [st1 EXCEPT !.exc = r.exc]
        ELSE IF ~r.val THEN Raise(st1, "ValueError", "Value must be one of")
        ELSE st1
  IN Test(SetVar(st, vo(VarDepth), st.env[vi(VarDepth)]),
          Contains(DictGet(Struct, K_Values, None), st.env[vi(VarDepth)]))

\* The strip is emitted when '+Strip' is not None; the '+MinLength' test is
\* emitted as len(vo) > MinLength.
Python_String(StructPath, Struct, VarDepth, st) ==
  LET MinLength == DictGet(Struct, K_MinLength, None)
      MaxLength == DictGet(Struct, K_MaxLength, None)
      Regex == DictGet(Struct, K_Regex, None)
      Match(st1, m) ==
        IF ~m.ok THEN [st1 EXCEPT !.exc = m.exc]
        ELSE IF ~m.val THEN Raise(st1, "ValueError", "Does not match regex")
        ELSE st1
      Test(s, st1) ==
        IF MinLength # None /\ Len(s.s) > MinLength.n
        THEN Raise(st1, "ValueError", "Input too short")
        ELSE IF MaxLength # None /\ Len(s.s) > MaxLength.n
        THEN Raise(st1, "ValueError", "Input too long")
        ELSE IF Regex # None THEN Match(st1, ReMatch(Regex, s))
        ELSE st1
      Assign(s) == Test(s, SetVar(st, vo(VarDepth), s))
      Stripped(s0) ==
        Assign(IF DictGet(Struct, K_Strip, None) # None THEN StrV(Strip(s0.s)) ELSE s0)
  IN Stripped(PyStr(st.env[vi(VarDepth)]))

Python_Email(StructPath, Struct, VarDepth, st) ==
  Python_String(StructPath, Struct, VarDepth, st)

RECURSIVE Python_(_, _, _, _, _, _)
RECURSIVE Python_ObjectFields(_, _, _, _, _)
RECURSIVE Python_ObjectExtra(_, _, _, _)
RECURSIVE Python_MapLoop(_, _, _, _, _)
RECURSIVE Python_SetLoop(_, _, _, _, _)
RECURSIVE Python_ListLoop(_, _, _, _, _)

RECURSIVE Python_ObjectFields_present(_, _, _, _, _)
\* Field code that ran for the fields present in the input only.
Python_ObjectFields_present(StructPath, Struct, VarDepth, i, st) ==
  IF i > Len(Struct.kv) \/ Raised(st) THEN st
  ELSE LET fieldname == Struct.kv[i][1]
           fieldstruct == Struct.kv[i][2]
           Store(st3) ==
             IF Raised(st3) THEN st3
             ELSE SetVar(st3, vo(VarDepth),
                         DictSet(st3.env[vo(VarDepth)], fieldname,
                                 st3.env[vo(VarDepth + 1)]))
       IN Python_ObjectFields_present(StructPath, Struct, VarDepth, i + 1,
            IF StartsWith(fieldname.s, "+") \/ ~HasKey(st.env[vi(VarDepth)], fieldname)
            THEN st
            ELSE Store(Python_(Append(StructPath, fieldname), fieldstruct,
                               VarDepth + 1, vi(VarDepth + 1), NoneVar,
                               SetVar(SetVar(st, vi(VarDepth + 1),
                                             DictGet(st.env[vi(VarDepth)], fieldname, None)),
                                      vo(VarDepth + 1), Undefined))))

\* The code emitted per declared field, in the order of Struct.items().
Python_ObjectFields(StructPath, Struct, VarDepth, i, st) ==
  IF i > Len(Struct.kv) \/ Raised(st) THEN st
  ELSE LET fieldname == Struct.kv[i][1]
           fieldstruct == Struct.kv[i][2]
           \* vo<d>[fieldname] = vo<d+1>, reached when the field's code raised nothing
           Store(st3) ==
             IF Raised(st3) THEN st3
             ELSE SetVar(st3, vo(VarDepth),
                         DictSet(st3.env[vo(VarDepth)], fieldname,
                                 st3.env[vo(VarDepth + 1)]))
       IN Python_ObjectFields(StructPath, Struct, VarDepth, i + 1,
            IF StartsWith(fieldname.s, "+") THEN st
            ELSE Store(Python_(Append(StructPath, fieldname), fieldstruct,
                               VarDepth + 1, vi(VarDepth + 1), NoneVar,
                               SetVar(SetVar(st, vi(VarDepth + 1),
                                             DictGet(st.env[vi(VarDepth)], fieldname, None)),
                                      vo(VarDepth + 1), Undefined))))

\* for k, v in vi.items(): if k not in tuple(Struct): vo[k] = v
Python_ObjectExtra(Struct, VarDepth, i, st) ==
  LET items == st.env[vi(VarDepth)].kv
  IN IF i > Len(items) THEN st
     ELSE LET k == items[i][1]
              v == items[i][2]
              st1 == SetVar(SetVar(st, Var("k", 0, ""), k), Var("v", 0, ""), v)
              st2 == IF \E j \in DOMAIN Struct.kv : PyEq(Struct.kv[j][1], k)
                     THEN st1
                     ELSE SetVar(st1, vo(VarDepth), DictSet(st1.env[vo(VarDepth)], k, v))
          IN Python_ObjectExtra(Struct, VarDepth, i + 1, st2)

Python_Object(StructPath, Struct, VarDepth, st) ==
  LET Extra(st2) ==
        IF Raised(st2) THEN st2
        ELSE IF PyBool(DictGet(Struct, K_Extra, None))
        THEN Python_ObjectExtra(Struct, VarDepth, 1, st2)
        ELSE st2
  IN IF st.env[vi(VarDepth)].t = "dict"
     THEN Extra(Python_ObjectFields(StructPath, Struct, VarDepth, 1,
                                    SetVar(st, vo(VarDepth), DictV(<<>>))))
     ELSE Raise(st, "ValueError", "Invalid type")

\* The body of `for vi<d+1>k, vi<d+1>v in vi<d>.items()`, entry i onwards.
Python_MapLoop(StructPath, Struct, VarDepth, i, st) ==
  LET items == st.env[vi(VarDepth)].kv
      d1 == VarDepth + 1
      \* vo<d>[vo<d+1>k] = vo<d+1>v
      Put(s7) ==
        IF ~Hashable(s7.env[Var("vo", d1, "k")])
        THEN Raise(s7, "TypeError", "unhashable type")
        ELSE SetVar(s7, vo(VarDepth),
                    DictSet(s7.env[vo(VarDepth)], s7.env[Var("vo", d1, "k")],
                            s7.env[Var("vo", d1, "v")]))
      \* vo<d+1>v = vo<d+1>
      Value(s6) ==
        IF Raised(s6) THEN s6
        ELSE Put(SetVar(s6, Var("vo", d1, "v"), s6.env[vo(d1)]))
      \* vo<d+1>k = vo<d+1>; vi<d+1> = vi<d+1>v; the value's code
      Key(s3) ==
        IF Raised(s3) THEN s3
        ELSE Value(Python_(Append(StructPath, K_ValueType),
                           DictGet(Struct, K_ValueType, None),
                           d1, Var("vi", d1, "k"), Var("vi", d1, "v"),
                           SetVar(SetVar(SetVar(s3, Var("vo", d1, "k"), s3.env[vo(d1)]),
                                         vi(d1), s3.env[Var("vi", d1, "v")]),
                                  vo(d1), Undefined)))
      \* vi<d+1> = vi<d+1>k; the key's code
      Entry(s1) ==
        Key(Python_(Append(StructPath, K_KeyType), DictGet(Struct, K_KeyType, None),
                    d1, Var("vi", d1, "k"), NoneVar,
                    SetVar(SetVar(s1, vi(d1), s1.env[Var("vi", d1, "k")]),
                           vo(d1), Undefined)))
  IN IF i > Len(items) \/ Raised(st) THEN st
     ELSE Python_MapLoop(StructPath, Struct, VarDepth, i + 1,
            Entry(SetVar(SetVar(st, Var("vi", d1, "k"), items[i][1]),
                         Var("vi", d1, "v"), items[i][2])))

Python_Map(StructPath, Struct, VarDepth, st) ==
  IF st.env[vi(VarDepth)].t = "dict"
  THEN Python_MapLoop(StructPath, Struct, VarDepth, 1,
                      SetVar(st, vo(VarDepth), DictV(<<>>)))
  ELSE Raise(st, "ValueError", "Must be Mapping")

\* The body of `for vi<d+1> in vi<d>` of a Set, element i onwards.
Python_SetLoop(StructPath, Struct, VarDepth, i, st) ==
  LET elems == Iter(st.env[vi(VarDepth)])
      d1 == VarDepth + 1
      \* vo<d>.add(vo<d+1>)
      Add(s2) ==
        IF Raised(s2) THEN s2
        ELSE IF ~Hashable(s2.env[vo(d1)]) THEN Raise(s2, "TypeError", "unhashable type")
        ELSE SetVar(s2, vo(VarDepth), SetAdd(s2.env[vo(VarDepth)], s2.env[vo(d1)]))
  IN IF i > Len(elems) \/ Raised(st) THEN st
     ELSE Python_SetLoop(StructPath, Struct, VarDepth, i + 1,
            Add(Python_(Append(StructPath, K_ValueType), DictGet(Struct, K_ValueType, None),
                        d1, NoneVar, vi(d1),
                        SetVar(SetVar(st, vi(d1), elems[i]), vo(d1), Undefined))))

Python_Set(StructPath, Struct, VarDepth, st) ==
  IF Iterable(st.env[vi(VarDepth)])
  THEN Python_SetLoop(StructPath, Struct, VarDepth, 1, SetVar(st, vo(VarDepth), SetV({})))
  ELSE Raise(st, "ValueError", "Must be Iterable")

\* The body of `for vi<d+1> in vi<d>` of a List, element i onwards.
Python_ListLoop(StructPath, Struct, VarDepth, i, st) ==
  LET elems == Iter(st.env[vi(VarDepth)])
      d1 == VarDepth + 1
      \* vo<d>.append(vo<d+1>)
      Add(s2) ==
        IF Raised(s2) THEN s2
        ELSE SetVar(s2, vo(VarDepth),
                    ListV(Append(s2.env[vo(VarDepth)].xs, s2.env[vo(d1)])))
  IN IF i > Len(elems) \/ Raised(st) THEN st
     ELSE Python_ListLoop(StructPath, Struct, VarDepth, i + 1,
            Add(Python_(Append(StructPath, K_ValueType), DictGet(Struct, K_ValueType, None),
                        d1, NoneVar, vi(d1),
                        SetVar(SetVar(st, vi(d1), elems[i]), vo(d1), Undefined))))

Python_List(StructPath, Struct, VarDepth, st) ==
  LET v == st.env[vi(VarDepth)]
      Length == DictGet(Struct, K_Length, None)
      MaxLength == DictGet(Struct, K_MaxLength, None)
      MinLength == DictGet(Struct, K_MinLength, None)
      \* the length tests emitted after the loop, on len(vo<d>) = n
      Lengths(s1, n) ==
        IF Length # None /\ n # Length.n
        THEN Raise(s1, "ValueError", "List must contain exactly Length items")
        ELSE IF MaxLength # None /\ n > MaxLength.n
        THEN Raise(s1, "ValueError", "List must contain at most MaxLength items")
        ELSE IF MinLength # None /\ n < MinLength.n
        THEN Raise(s1, "ValueError", "List must contain at least MinLength items")
        ELSE s1
      After(s1) == IF Raised(s1) THEN s1 ELSE Lengths(s1, Len(s1.env[vo(VarDepth)].xs))
  IN IF v.t = "str" THEN Raise(st, "TypeError", "Must be Iterable but not a string")
     ELSE IF Iterable(v)
     THEN After(Python_ListLoop(StructPath, Struct, VarDepth, 1,
                                SetVar(st, vo(VarDepth), ListV(<<>>))))
     ELSE Raise(st, "TypeError", "Must be Iterable")

\* getattr(self, 'Python_' + Type)(StructPath, Struct, VarDepth, ...)
Python_Dispatch(StructPath, Struct, VarDepth, st0) ==
  LET Type == DictGet(Struct, K_Type, None)
      st == [st0 EXCEPT !.handled =
               Append(@, <<StrV(JoinPath(StructPath)), st0.env[vi(VarDepth)]>>)]
  IN CASE Type = T_Type -> Python_Type(StructPath, Struct, VarDepth, st)
       [] Type = T_Boolean -> Python_Boolean(StructPath, Struct, VarDepth, st)
       [] Type = T_Integer -> Python_Integer(StructPath, Struct, VarDepth, st)
       [] Type = T_Decimal -> Python_Decimal(StructPath, Struct, VarDepth, st)
       [] Type = T_Float -> Python_Float(StructPath, Struct, VarDepth, st)
       [] Type = T_Enum -> Python_Enum(StructPath, Struct, VarDepth, st)
       [] Type = T_String -> Python_String(StructPath, Struct, VarDepth, st)
       [] Type = T_Email -> Python_Email(StructPath, Struct, VarDepth, st)
       [] Type = T_Object -> Python_Object(StructPath, Struct, VarDepth, st)
       [] Type = T_Map -> Python_Map(StructPath, Struct, VarDepth, st)
       [] Type = T_Set -> Python_Set(StructPath, Struct, VarDepth, st)
       [] Type = T_List -> Python_List(StructPath, Struct, VarDepth, st)

\* A list that takes each new record at its front.
Errs_insert(errs, rec) == <<rec>> \o errs

\* errs.append(rec)
Errs_append(errs, rec) == Append(errs, rec)

\* The absence of a value: of a result, of a variable never assigned.
NoValue == [t |-> "no value"]

\* The code emitted for a None input of a node without a default: vo = None
\* when the node is nullable, else raise ValueError.
Python_Null_lenient(Struct, VarDepth, st) == SetVar(st, vo(VarDepth), None)

Python_Null(Struct, VarDepth, st) ==
  IF PyBool(DictGet(Struct, K_None, None))
  THEN SetVar(st, vo(VarDepth), None)
  ELSE Raise(st, "ValueError", "Value must not be None")

\* The try/except emitted around every node.  With a default the handler
\* code follows the substitution; without one it is the else branch of the
\* None test.  ValueError and TypeError are caught and recorded with the
\* values KeyVar and ValueVar have then; anything else propagates.
Python_(StructPath, Struct, VarDepth, KeyVar, ValueVar, st) ==
  LET in == st.env[vi(VarDepth)]
      Default == DictGet(Struct, K_Default, None)
      \* the record of the node being left
      Leave(body, caught, end) ==
        IF Raised(end) THEN end
        ELSE [end EXCEPT !.done = Append(@,
                [path |-> StrV(JoinPath(StructPath)), Struct |-> Struct, in |-> in,
                 depth |-> VarDepth,
                 key |-> IF KeyVar = NoneVar THEN None ELSE st.env[KeyVar],
                 value |-> IF ValueVar = NoneVar THEN None ELSE st.env[ValueVar],
                 envIn |-> st.env, envOut |-> end.env,
                 ran |-> Len(body.handled) > Len(st.handled),
                 arg |-> IF Len(body.handled) > Len(st.handled)
                         THEN body.handled[Len(st.handled) + 1][2] ELSE NoValue,
                 caught |-> caught,
                 errs |-> SubSeq(end.errs, Len(st.errs) + 1, Len(end.errs)),
                 before |-> st.errs, after |-> end.errs,
                 out |-> IF vo(VarDepth) \in DOMAIN end.env THEN end.env[vo(VarDepth)]
                         ELSE NoValue])]
      \* except (ValueError, TypeError) as e: errs.append(...)
      Except(body, caught) ==
        Leave(body, caught,
              IF caught
              THEN [body EXCEPT
                      !.errs = Errs_append(@, <<StrV(JoinPath(StructPath)), body.exc.msg,
                                                Eval(body, KeyVar), Eval(body, ValueVar)>>),
                      !.exc = NoExc]
              ELSE body)
      Try(body) == Except(body, body.exc.kind \in {"ValueError", "TypeError"})
      \* the body of the try: `if vi is None: vi = Default` and the handler
      \* code, or `if vi is None: ... else:` the handler code
      Body(st0) ==
        IF Default = None /\ in = None
        THEN Python_Null(Struct, VarDepth, st0)
        ELSE Python_Dispatch(StructPath, Struct, VarDepth,
               IF Default # None /\ in = None
               THEN SetVar(st0, vi(VarDepth), Default) ELSE st0)
  IN Try(Body([st EXCEPT !.visited = Append(@, <<StrV(JoinPath(StructPath)), in>>)]))

(***************************************************************************)
(* AS3.Python, the generated function, AS3.Compile and AS3.__call__        *)
(***************************************************************************)
RECURSIVE Python_Literals(_, _)
\* What the emitted text fixes of a node: repr(Struct['+Default']) is put
\* into the text when the code is generated, so the text holds the value the
\* default object has at that moment, for the node and for every child.
Python_Literals(mem, Struct) ==
  DictV([i \in DOMAIN Struct.kv |->
    LET k == Struct.kv[i][1]
        v == Struct.kv[i][2]
    IN IF k = K_Default THEN <<k, Deref(mem, v)>>
       ELSE IF v.t = "dict" /\ (k \in {K_KeyType, K_ValueType} \/ ~StartsWith(k.s, "+"))
       THEN <<k, Python_Literals(mem, v)>>
       ELSE <<k, v>>])

\* self.Python(FunctionName='AS3_Generated_Function'): the text of the
\* function, given by the path and the node tree it was generated from.
Python(mem, StructPath, Struct) ==
  [StructPath |-> StructPath, Struct |-> Python_Literals(mem, Struct)]

\* The generated function, entered: its parameter data, then errs = [],
\* vi0 = data, vo0 = Undefined.  These are local variables: every call of
\* the function has its own.
AS3_Generated_Function_Enter(data) ==
  [env |-> (Var("data", 0, "") :> data) @@ (vi(0) :> data) @@ (vo(0) :> Undefined),
   errs |-> <<>>, exc |-> NoExc, visited |-> <<>>, handled |-> <<>>, done |-> <<>>]

RECURSIVE Repr_errs(_)
\* The items of repr(errs): each record as the text of a tuple, its
\* message standing as one character between the quotes.
Repr_errs(errs) ==
  IF errs = <<>> THEN <<>>
  ELSE <<"(">> \o Repr(errs[1][1]) \o <<",", " ", "'", errs[1][2], "'", ",", " ">>
       \o Repr(errs[1][3]) \o <<",", " ">> \o Repr(errs[1][4]) \o <<")">>
       \o (IF Len(errs) = 1 THEN <<>> ELSE <<",", " ">> \o Repr_errs(Tail(errs)))

\* str(errs): the text of the list
Str_errs(errs) == StrV(<<"[">> \o Repr_errs(errs) \o <<"]">>)

\* A generated function that returned vo0 whatever errs holds.
AS3_Generated_Function_Leave_lax(st) ==
  IF Raised(st)
  THEN [st |-> st, walked |-> FALSE, returned |-> FALSE, rval |-> NoValue,
        exc |-> [kind |-> st.exc.kind, msg |-> st.exc.msg, errs |-> <<>>,
                 arg |-> StrV(<<st.exc.msg>>)]]
  ELSE [st |-> st, walked |-> TRUE, returned |-> TRUE, rval |-> st.env[vo(0)],
        exc |-> [kind |-> "", msg |-> "", errs |-> <<>>, arg |-> None]]

\* The generated function, left after the root node's code: `if errs: raise
\* Exception(str(errs))`, else `return vo0`.  arg is what the exception
\* raised carries, its one argument: the text str(errs), or the message of
\* an exception that escaped the root node's code.  errs are the records
\* that text was made from, empty for an exception that escaped.
AS3_Generated_Function_Leave(st) ==
  IF Raised(st)
  THEN [st |-> st, walked |-> FALSE, returned |-> FALSE, rval |-> NoValue,
        exc |-> [kind |-> st.exc.kind, msg |-> st.exc.msg, errs |-> <<>>,
                 arg |-> StrV(<<st.exc.msg>>)]]
  ELSE IF st.errs # <<>>
  THEN [st |-> st, walked |-> TRUE, returned |-> FALSE, rval |-> NoValue,
        exc |-> [kind |-> "Exception", msg |-> "str(errs)", errs |-> st.errs,
                 arg |-> Str_errs(st.errs)]]
  ELSE [st |-> st, walked |-> TRUE, returned |-> TRUE, rval |-> st.env[vo(0)],
        exc |-> [kind |-> "", msg |-> "", errs |-> <<>>, arg |-> None]]

\* One run of the generated function on data.
AS3_Generated_Function(code, data) ==
  AS3_Generated_Function_Leave(
    Python_(code.StructPath, code.Struct, 0, NoneVar, NoneVar,
            AS3_Generated_Function_Enter(data)))

\* The end of AS3.__call__: the function's value is returned; any Exception
\* it raises is replaced by CompiledCodeError.  arg is the one argument of
\* the CompiledCodeError, a text: the heading, the numbered lines of the
\* code (standing as one character), str(Data) and the last line of the
\* traceback, which names the exception caught (cause) and gives its text.
Call_Leave(r) ==
  IF r.returned
  THEN [kind |-> "return", rval |-> r.rval, exc |-> "", arg |-> NoValue, cause |-> r.exc,
        st |-> r.st, walked |-> r.walked]
  ELSE [kind |-> "raise", rval |-> NoValue, exc |-> "CompiledCodeError",
        arg |-> StrV(<<"An error occured in the following code:", "CompiledFunctionCode">>
                     \o PyStr(r.st.env[Var("data", 0, "")]).s
                     \o <<r.exc.kind, ":", " ">> \o r.exc.arg.s),
        cause |-> r.exc, st |-> r.st, walked |-> r.walked]

\* AS3.__call__ after compilation, run without interruption.
Call_(code, data) == Call_Leave(AS3_Generated_Function(code, data))

NoCall ==
  [kind |-> "none", rval |-> NoValue, exc |-> "", arg |-> NoValue,
   cause |-> [kind |-> "", msg |-> "", errs |-> <<>>, arg |-> None],
   st |-> [env |-> <<>>, errs |-> <<>>, exc |-> NoExc, visited |-> <<>>,
           handled |-> <<>>, done |-> <<>>],
   walked |-> FALSE]

(***************************************************************************)
(* The declarations and the inputs the validator is exercised with          *)
(***************************************************************************)
D_1 == StrV(<<"1">>)
D_3 == StrV(<<"3">>)
D_x == StrV(<<"x">>)
D_a == StrV(<<"a">>)
D_b == StrV(<<"b">>)
D_ab == StrV(<<"a", "b">>)
D_pad == StrV(<<" ", "a", "b", " ">>)
D_Alexandria == StrV(<<"A", "l", "e", "x", "a", "n", "d", "r", "i", "a">>)
F_A == StrV(<<"A">>)
F_B == StrV(<<"B">>)
F_z == StrV(<<"z">>)
F_Name == StrV(<<"N", "a", "m", "e">>)
F_Age == StrV(<<"A", "g", "e">>)
F_Tags == StrV(<<"T", "a", "g", "s">>)
K_Bogus == StrV(<<"+", "B", "o", "g", "u", "s">>)
T_Bogus == StrV(<<"B", "o", "g", "u", "s">>)
D_src == StrV(<<"s", "r", "c">>)

\* Bounds of the model: the calls made on one validator, and the longest
\* input list enumerated.
MaxCalls == 2
MaxLen == 3

\* tag + '?'
Q(tag) == StrV(tag.s \o <<"?">>)

\* The one object of the caller that declarations refer to as a default, as
\* it is when the validator is built and as it is once the caller has
\* appended to it.
DefaultObject == ListV(<<D_1>>)
DefaultObjectMutated == ListV(<<D_1, D_x>>)
InitMem == (1 :> DefaultObject)

TypeTags ==
  {T_Type, T_Boolean, T_Integer, T_Decimal, T_Float, T_Enum, T_String, T_Email,
   T_Object, T_Map, T_Set, T_List}

\* The smallest declaration of a type: its tag, with the attributes the
\* type requires.
Base(tag, T) ==
  CASE T \in {T_Map} ->
         DictV(<< <<K_Type, tag>>, <<K_KeyType, T_String>>, <<K_ValueType, T_Integer>> >>)
    [] T \in {T_Set, T_List} -> DictV(<< <<K_Type, tag>>, <<K_ValueType, T_Integer>> >>)
    [] T = T_Enum -> DictV(<< <<K_Type, tag>>, <<K_Values, ListV(<<D_1, D_x>>)>> >>)
    [] T = T_Object -> DictV(<< <<K_Type, tag>>, <<F_A, Q(T_Integer)>> >>)
    [] OTHER -> DictV(<< <<K_Type, tag>> >>)

\* One value for each attribute name a declaration may carry.
Attrs ==
  << <<K_Source, D_src>>, <<K_None, True>>, <<K_Label, D_a>>, <<K_Help, D_b>>,
     <<K_Default, D_1>>, <<K_MaxValue, IntV(5)>>, <<K_MinValue, IntV(1)>>,
     <<K_Values, ListV(<<D_1, D_x>>)>>, <<K_MaxLength, IntV(3)>>,
     <<K_MinLength, IntV(2)>>, <<K_Strip, False>>, <<K_Regex, R_Digits>>,
     <<K_Extra, True>>, <<K_KeyType, T_String>>, <<K_ValueType, T_Integer>>,
     <<K_Length, IntV(3)>>, <<K_Bogus, IntV(1)>>, <<F_B, T_Integer>> >>

\* Every type, known or not, with every single attribute added to its
\* smallest declaration.
AttrDecls ==
  {DictSet(Base(T, T), Attrs[i][1], Attrs[i][2]) :
     T \in TypeTags \cup {T_Bogus}, i \in DOMAIN Attrs}

\* The two ways to say nullable, alone and together: the tag with no, one
\* or two '?', as a bare string or in a mapping, with or without '+None'.
NoneFlags == {True, False, None, IntV(0), IntV(1), D_x}
Tags(T) == {T, Q(T), Q(Q(T))}
NullableDecls ==
  UNION {Tags(T) : T \in TypeTags \cup {T_Bogus}}
  \cup UNION {{Base(tag, T) : tag \in Tags(T)} : T \in TypeTags}
  \cup UNION {{DictSet(Base(tag, T), K_None, f) : tag \in Tags(T), f \in NoneFlags} :
                T \in TypeTags}

\* Declarations with none of the required parts.
BrokenDecls ==
  {DictV(<<>>), DictV(<< <<K_Type, None>> >>), DictV(<< <<K_Type, EmptyStr>> >>),
   DictV(<< <<K_Type, T_Enum>> >>), DictV(<< <<K_Type, T_Map>> >>),
   DictV(<< <<K_Type, T_Map>>, <<K_KeyType, T_String>> >>),
   DictV(<< <<K_Type, T_List>> >>), DictV(<< <<K_Type, T_Set>> >>),
   DictV(<< <<K_Type, T_Integer>>, <<K_MaxValue, D_x>> >>), IntV(5)}

WithAttr(d, k, v) == DictSet(d, k, v)
Typed(T) == DictV(<< <<K_Type, T>> >>)

\* Element and field declarations.
StringDecls ==
  {T_String, Q(T_String),
   WithAttr(Typed(T_String), K_MaxLength, IntV(3)),
   WithAttr(Typed(T_String), K_MinLength, IntV(2)),
   WithAttr(WithAttr(Typed(T_String), K_MinLength, IntV(1)), K_MaxLength, IntV(3)),
   WithAttr(WithAttr(Typed(T_String), K_MaxLength, IntV(3)), K_Regex, R_Digits),
   WithAttr(Typed(T_String), K_Regex, StrV(<<"(">>)),
   WithAttr(Typed(T_String), K_Strip, EmptyStr),
   WithAttr(WithAttr(Typed(T_String), K_MaxLength, IntV(3)), K_Default, D_Alexandria),
   WithAttr(Typed(T_String), K_Default, D_pad),
   WithAttr(Typed(T_String), K_Strip, False),
   WithAttr(Typed(T_String), K_Strip, True),
   WithAttr(WithAttr(Typed(T_String), K_Strip, False), K_MaxLength, IntV(3)),
   T_Email,
   WithAttr(Typed(T_Email), K_MinLength, IntV(2)),
   WithAttr(Typed(T_Email), K_Strip, False),
   WithAttr(WithAttr(Typed(T_String), K_MinLength, IntV(2)), K_Default, D_a)}
ScalarDecls ==
  {T_Integer, Q(T_Integer), T_Decimal, Q(T_Decimal),
   WithAttr(Typed(T_Integer), K_Default, D_3),
   WithAttr(Typed(T_Integer), K_Default, D_x),
   WithAttr(Typed(T_Decimal), K_Default, D_1),
   WithAttr(Typed(T_Type), K_Default, Ref(1)),
   WithAttr(Typed(T_Enum), K_Values, DictV(<< <<D_1, D_x>> >>)),
   WithAttr(Typed(T_Integer), K_MaxValue, IntV(3)),
   WithAttr(Typed(T_Integer), K_MinValue, IntV(3)),
   WithAttr(WithAttr(Typed(T_Integer), K_MinValue, IntV(1)), K_MaxValue, IntV(3)),
   WithAttr(WithAttr(Typed(T_Integer), K_MaxValue, IntV(3)), K_Default, IntV(5))}
ElementDecls ==
  {T_Integer, Q(T_Integer), T_String, T_Decimal,
   WithAttr(Typed(T_String), K_MaxLength, IntV(3)),
   WithAttr(Typed(T_Integer), K_Default, D_3),
   DictV(<< <<K_Type, T_List>>, <<K_ValueType, T_Integer>> >>)}

ListDecls ==
  {DictV(<< <<K_Type, T_List>>, <<K_ValueType, e>> >>) : e \in ElementDecls}
  \cup {DictV(<< <<K_Type, T_List>>, <<K_ValueType, e>>, <<K_Length, IntV(n)>> >>) :
          e \in {T_Integer, T_String, T_Decimal}, n \in {2, 3}}
  \cup {DictV(<< <<K_Type, T_List>>, <<K_ValueType, T_Integer>>, <<K_Length, IntV(2)>>,
                 <<K_MaxLength, IntV(1)>> >>),
        DictV(<< <<K_Type, T_List>>, <<K_ValueType, T_Integer>>, <<K_Length, IntV(1)>>,
                 <<K_MinLength, IntV(2)>> >>),
        DictV(<< <<K_Type, T_List>>, <<K_ValueType, T_Integer>>, <<K_MaxLength, IntV(1)>>,
                 <<K_MinLength, IntV(1)>> >>),
        DictV(<< <<K_Type, T_List>>, <<K_ValueType, T_Integer>>, <<K_Default, Ref(1)>> >>),
        DictV(<< <<K_Type, T_List>>,
                 <<K_ValueType, DictV(<< <<K_Type, T_List>>, <<K_ValueType, T_Integer>>,
                                         <<K_MaxLength, IntV(1)>> >>)>> >>)}
SetDecls ==
  {DictV(<< <<K_Type, T_Set>>, <<K_ValueType, e>> >>) : e \in ElementDecls}
MapDecls ==
  {DictV(<< <<K_Type, T_Map>>, <<K_KeyType, k>>, <<K_ValueType, v>> >>) :
     k \in {T_String, T_Integer, Q(T_Integer)},
     v \in {T_Integer, T_String, T_Decimal,
            DictV(<< <<K_Type, T_List>>, <<K_ValueType, T_Integer>> >>)}}
  \cup {DictV(<< <<K_Type, T_Map>>,
                 <<K_KeyType, DictV(<< <<K_Type, T_Set>>, <<K_ValueType, T_String>> >>)>>,
                 <<K_ValueType, T_Integer>> >>)}
ObjectDecls ==
  {DictV(<< <<K_Type, T_Object>>, <<F_A, a>>, <<F_B, b>> >>) :
     a \in ElementDecls,
     b \in {T_Integer, Q(T_Integer), T_Decimal,
            WithAttr(Typed(T_String), K_MaxLength, IntV(3))}}
  \cup {DictV(<< <<K_Type, T_Object>>, <<K_Extra, True>>, <<F_A, T_Integer>> >>),
        DictV(<< <<K_Type, T_Object>>,
                 <<F_Name, WithAttr(Typed(T_String), K_MaxLength, IntV(3))>>,
                 <<F_Age, Q(T_Integer)>> >>),
        DictV(<< <<K_Type, T_Object>>,
                 <<F_Name, WithAttr(WithAttr(Typed(T_String), K_MinLength, IntV(1)),
                                    K_MaxLength, IntV(3))>>,
                 <<F_Age, Q(T_Integer)>> >>),
        DictV(<< <<K_Type, T_Object>>,
                 <<F_Tags, DictV(<< <<K_Type, T_List>>, <<K_ValueType, T_String>> >>)>> >>),
        DictV(<< <<K_Type, T_Object>>,
                 <<F_A, WithAttr(Typed(T_Type), K_Default, Ref(1))>>,
                 <<F_B, WithAttr(Typed(T_Type), K_Default, Ref(1))>> >>)}

Decls ==
  AttrDecls \cup NullableDecls \cup BrokenDecls \cup StringDecls \cup ScalarDecls
  \cup ListDecls \cup SetDecls \cup MapDecls \cup ObjectDecls

\* The sequences over S of length at most n.
SeqsUpTo(S, n) == UNION {[1..k -> S] : k \in 0..n}

ScalarInputs == {None, D_1, D_x, D_ab, D_pad, D_Alexandria, IntV(5)}
ListInputs ==
  {ListV(xs) : xs \in SeqsUpTo({D_1, D_x}, MaxLen)}
  \cup {ListV(<<None>>), ListV(<<D_1, None>>), ListV(<<D_1, D_x, D_3>>), ListV(<<D_a, D_b>>),
        ListV(<<ListV(<<D_x>>), ListV(<<D_x, D_1>>)>>), ListV(<<ListV(<<D_1>>)>>)}
\* A mapping with keys A and B, each absent or one of a few values.
FieldValues == {NoValue, None, D_1, D_x}
Fields(a, b) ==
  DictV((IF a = NoValue THEN <<>> ELSE << <<F_A, a>> >>)
        \o (IF b = NoValue THEN <<>> ELSE << <<F_B, b>> >>))
DictInputs ==
  {Fields(a, b) : a \in FieldValues, b \in FieldValues \ {D_x}}
  \cup {DictV(<< <<F_A, D_1>>, <<F_z, ListV(<<D_1>>)>>, <<K_Type, IntV(5)>> >>),
        DictV(<< <<F_Name, D_Alexandria>>, <<F_Age, None>> >>),
        DictV(<< <<F_Name, D_ab>>, <<F_Age, D_1>> >>),
        DictV(<< <<F_Tags, ListV(<<D_a, D_b>>)>> >>),
        DictV(<< <<F_A, ListV(<<D_x>>)>>, <<F_B, ListV(<<D_1, D_x>>)>> >>),
        DictV(<< <<D_x, D_x>>, <<D_1, D_x>>, <<D_3, D_1>> >>)}
Inputs == ScalarInputs \cup ListInputs \cup DictInputs

\* The inputs a validator is called with: every input for the declarations
\* that describe data, a few for the declarations that only exercise the
\* normalizer.
ProbeInputs == {None, D_1, D_x, ListV(<<D_1, D_x>>), Fields(D_1, NoValue)}
InputsFor(StructIn) ==
  IF StructIn \in StringDecls \cup ScalarDecls \cup ListDecls \cup SetDecls
                  \cup MapDecls \cup ObjectDecls
  THEN Inputs ELSE ProbeInputs


(***************************************************************************)
(* The validator object and its caller                                     *)
(*   mem                   the caller's objects that declarations refer to *)
(*   pc                    "new", "built" (__init__ returned) or "failed"  *)
(*                         (__init__ raised)                               *)
(*   decl                  the declaration given to AS3(...)               *)
(*   Struct                self.Struct                                     *)
(*   initExc               the exception __init__ raised                   *)
(*   CompiledFunction      self.CompiledFunction                           *)
(*   CompiledFunctionCode  self.CompiledFunctionCode                       *)
(*   compiles              how many times Compile has run                  *)
(*   calls                 how many calls were made                        *)
(*   Data                  the argument of the last call                   *)
(*   out                   how the last call ended                         *)
(*   threads               the calls in progress on the caller's threads:  *)
(*                         where each is in __call__, its argument, the    *)
(*                         number of the call, the local variables of the  *)
(*                         generated function and how the call ended       *)
(*   db                    the lists the Redis server holds, by key        *)
(*   reply                 how the last call of a Redis accessor or the    *)
(*                         last request to the demo application ended, and *)
(*                         the lists before it                             *)
(***************************************************************************)
VARIABLES mem, pc, decl, Struct, initExc, CompiledFunction, CompiledFunctionCode,
          compiles, calls, Data, out, threads, db, reply

vars == <<mem, pc, decl, Struct, initExc, CompiledFunction, CompiledFunctionCode,
          compiles, calls, Data, out, threads, db, reply>>

\* The threads of the caller.
Threads == {"t1", "t2"}
\* The keys of the Redis lists: the list of the demo application and a
\* list of numbers.
ListKeys == {"dinner_name_list", "l"}
\* A thread that is not in a call.
Idle == [pc |-> "idle", Data |-> None, seq |-> 0, fn |-> None, frame |-> NoCall.st,
         out |-> NoCall]

Init ==
  /\ mem = InitMem
  /\ pc = "new"
  /\ decl = None
  /\ Struct = None
  /\ initExc = NoExc
  /\ CompiledFunction = None
  /\ CompiledFunctionCode = None
  /\ compiles = 0
  /\ calls = 0
  /\ Data = None
  /\ out = NoCall
  /\ threads = [t \in Threads |-> Idle]
  /\ db = [key \in ListKeys |-> <<>>]
  /\ reply = [op |-> "", args |-> <<>>, kind |-> "", val |-> None, before |-> <<>>]

\* AS3(StructIn, Compile=Compile): self.Struct = self.Struct_(('<Data>',),
\* StructIn), then self.Compile() when Compile is true.
Construct(StructIn, Compile) ==
  /\ pc = "new"
  /\ decl' = StructIn
  /\ LET Compile_(code) ==
           /\ CompiledFunctionCode' = code
           /\ CompiledFunction' = code
           /\ compiles' = compiles + 1
         Built(r) ==
           IF r.ok
           THEN /\ pc' = "built"
                /\ Struct' = r.Struct
                /\ initExc' = NoExc
                /\ IF Compile
                   THEN Compile_(Python(mem, DataPath, r.Struct))
                   ELSE UNCHANGED <<CompiledFunction, CompiledFunctionCode, compiles>>
           ELSE /\ pc' = "failed"
                /\ initExc' = r.exc
                /\ UNCHANGED <<Struct, CompiledFunction, CompiledFunctionCode, compiles>>
     IN Built(Struct_(mem, DataPath, StructIn))
  /\ UNCHANGED <<mem, calls, Data, out, threads, db, reply>>

\* validator(data): compile when there is no compiled function yet, then
\* run it.
Call(data) ==
  /\ pc = "built"
  /\ calls < MaxCalls
  /\ LET Run_(code) ==
           /\ CompiledFunction' = code
           /\ CompiledFunctionCode' =
                IF CompiledFunction = None THEN code ELSE CompiledFunctionCode
           /\ compiles' = IF CompiledFunction = None THEN compiles + 1 ELSE compiles
           /\ out' = Call_(code, data)
     IN Run_(IF CompiledFunction = None THEN Python(mem, DataPath, Struct)
             ELSE CompiledFunction)
  /\ Data' = data
  /\ calls' = calls + 1
  /\ UNCHANGED <<mem, pc, decl, Struct, initExc, threads, db, reply>>

RECURSIVE Mentions(_, _)
\* whether a declaration refers to the object r
Mentions(d, r) ==
  \/ d = r
  \/ d.t = "dict" /\ \E i \in DOMAIN d.kv : Mentions(d.kv[i][2], r)

\* The caller appends to the list it gave as a default in the declaration.
MutateDefault ==
  /\ pc = "built"
  /\ Mentions(decl, Ref(1))
  /\ mem[1] = DefaultObject
  /\ mem' = [mem EXCEPT ![1] = DefaultObjectMutated]
  /\ UNCHANGED <<pc, decl, Struct, initExc, CompiledFunction, CompiledFunctionCode,
                 compiles, calls, Data, out, threads, db, reply>>

\* The caller appends to the list the last call returned.  The list was
\* built by the run that returned it and nothing else refers to it.
MutateReturned ==
  /\ out.kind = "return"
  /\ out.rval.t = "list"
  /\ Len(out.rval.xs) <= MaxLen
  /\ out' = [out EXCEPT !.rval = ListV(Append(@.xs, D_x))]
  /\ UNCHANGED <<mem, pc, decl, Struct, initExc, CompiledFunction,
                 CompiledFunctionCode, compiles, calls, Data, threads, db, reply>>

Next ==
  \/ \E StructIn \in Decls, Compile \in BOOLEAN : Construct(StructIn, Compile)
  \/ \E data \in InputsFor(decl) : Call(data)
  \/ MutateDefault
  \/ MutateReturned

Spec == Init /\ [][Next]_vars

(***************************************************************************)
(* Calls from several threads.  A call is a sequence of steps, and between *)
(* any two of them the other threads may take theirs.  What the steps      *)
(* share is the validator object; the variables of the generated function  *)
(* are local to each call of it.                                           *)
(***************************************************************************)
\* Variables that all calls of the function share: those the call entered
\* last has set.
Locals_shared(ths, t) ==
  LET In == {u \in Threads : ths[u].pc \in {"body", "leave"}}
  IN ths[CHOOSE u \in In : \A v \in In : ths[u].seq >= ths[v].seq].frame

\* The local variables of the generated function in the thread t's call.
Locals(ths, t) == ths[t].frame

\* validator(Data) is entered: `if not self.CompiledFunction`
Call_Begin(t, data) ==
  /\ pc = "built"
  /\ threads[t].pc \in {"idle", "done"}
  /\ calls < MaxCalls
  /\ calls' = calls + 1
  /\ threads' = [threads EXCEPT ![t] =
       [Idle EXCEPT !.pc = IF CompiledFunction = None THEN "compile" ELSE "invoke",
                    !.Data = data, !.seq = calls + 1]]
  /\ UNCHANGED <<mem, pc, decl, Struct, initExc, CompiledFunction,
                 CompiledFunctionCode, compiles, Data, out, db, reply>>

\* Compile: self.CompiledFunctionCode = '\n'.join(self.Python(...))
Compile_Code(t) ==
  /\ threads[t].pc = "compile"
  /\ CompiledFunctionCode' = Python(mem, DataPath, Struct)
  /\ threads' = [threads EXCEPT ![t].pc = "exec"]
  /\ UNCHANGED <<mem, pc, decl, Struct, initExc, CompiledFunction, compiles, calls,
                 Data, out, db, reply>>

\* Compile: exec(self.CompiledFunctionCode, {}, l); self.CompiledFunction = ...
Compile_Exec(t) ==
  /\ threads[t].pc = "exec"
  /\ CompiledFunction' = CompiledFunctionCode
  /\ compiles' = compiles + 1
  /\ threads' = [threads EXCEPT ![t].pc = "invoke"]
  /\ UNCHANGED <<mem, pc, decl, Struct, initExc, CompiledFunctionCode, calls, Data,
                 out, db, reply>>

\* self.CompiledFunction(Data): the function is read from the validator
\* and entered.
Call_Invoke(t) ==
  /\ threads[t].pc = "invoke"
  /\ threads' = [threads EXCEPT ![t].pc = "body", ![t].fn = CompiledFunction,
                                ![t].frame = AS3_Generated_Function_Enter(threads[t].Data)]
  /\ UNCHANGED <<mem, pc, decl, Struct, initExc, CompiledFunction,
                 CompiledFunctionCode, compiles, calls, Data, out, db, reply>>

\* The code of the root node runs on the call's local variables.
Call_Body(t) ==
  /\ threads[t].pc = "body"
  /\ threads' = [threads EXCEPT ![t].pc = "leave",
                                ![t].frame = Python_(threads[t].fn.StructPath,
                                                     threads[t].fn.Struct, 0, NoneVar,
                                                     NoneVar, Locals(threads, t))]
  /\ UNCHANGED <<mem, pc, decl, Struct, initExc, CompiledFunction,
                 CompiledFunctionCode, compiles, calls, Data, out, db, reply>>

\* The function returns or raises, and __call__ with it.
Call_End(t) ==
  /\ threads[t].pc = "leave"
  /\ threads' = [threads EXCEPT ![t].pc = "done",
                                ![t].out = Call_Leave(AS3_Generated_Function_Leave(
                                                        Locals(threads, t)))]
  /\ UNCHANGED <<mem, pc, decl, Struct, initExc, CompiledFunction,
                 CompiledFunctionCode, compiles, calls, Data, out, db, reply>>

\* The declarations and inputs of the threads' calls.
ThreadDecls ==
  {Q(T_Integer), T_Decimal,
   WithAttr(Typed(T_Integer), K_Default, D_3),
   WithAttr(Typed(T_String), K_MaxLength, IntV(3)),
   DictV(<< <<K_Type, T_List>>, <<K_ValueType, T_Integer>> >>),
   DictV(<< <<K_Type, T_Set>>, <<K_ValueType, T_Integer>> >>),
   DictV(<< <<K_Type, T_Map>>, <<K_KeyType, T_String>>, <<K_ValueType, T_Integer>> >>),
   DictV(<< <<K_Type, T_Object>>, <<F_A, T_Integer>>, <<F_B, Q(T_Integer)>> >>)}
ThreadInputs ==
  {None, D_1, D_x, D_Alexandria, ListV(<<D_1, D_x>>), ListV(<<D_x, D_x>>),
   Fields(D_1, None), Fields(D_x, D_1)}

ThreadNext ==
  \/ \E StructIn \in ThreadDecls, Compile \in BOOLEAN : Construct(StructIn, Compile)
  \/ \E t \in Threads, data \in ThreadInputs : Call_Begin(t, data)
  \/ \E t \in Threads : Compile_Code(t)
  \/ \E t \in Threads : Compile_Exec(t)
  \/ \E t \in Threads : Call_Invoke(t)
  \/ \E t \in Threads : Call_Body(t)
  \/ \E t \in Threads : Call_End(t)

ThreadSpec == Init /\ [][ThreadNext]_vars

(***************************************************************************)
(* Granite.Redis: the typed accessors of Redis lists.  The server keeps a  *)
(* list as a sequence of byte strings, the head first; a key whose list is *)
(* empty does not exist.  An accessor is given by the set of ways a call   *)
(* of it can end: the lists after the call (db), "return" or "raise"       *)
(* (kind), and the value returned or the exception raised (val).           *)
(***************************************************************************)
\* str(arg).encode('utf-8'): the bytes of the text of arg.  The character
\* "E9" (e with an acute accent) takes the two bytes C3 A9, every other
\* character of the model one byte.
Encode(arg) ==
  LET s == PyStr(arg).s
      b[i \in 0..Len(s)] ==
        IF i = 0 THEN <<>>
        ELSE b[i - 1] \o (IF s[i] = "E9" THEN <<"C3", "A9">> ELSE <<s[i]>>)
  IN [t |-> "bytes", s |-> b[Len(s)]]

\* value.decode('utf-8'), value being bytes that Encode made
Decode(value) ==
  LET b == value.s
      c[i \in 1..(Len(b) + 2)] ==
        IF i > Len(b) THEN <<>>
        ELSE IF b[i] = "C3" THEN <<"E9">> \o c[i + 2]
        ELSE <<b[i]>> \o c[i + 1]
  IN StrV(c[1])

\* redis.Redis.lpop as the accessors call it; count is NoValue for
\* lpop(key).  lpop(key) removes the head and returns it, None when there is
\* no list.  lpop(key, count) depends on the library installed: redis-py
\* 2.6.2, which the class names, takes no count and the call raises
\* TypeError before anything is sent; a library that takes a count has the
\* server remove up to count items from the head and returns them as a list,
\* None when there is no list; for the count 0 a server answers None or the
\* empty list, and it rejects a negative count.
lpop(d, key, count) ==
  IF count = NoValue
  THEN {IF d[key] = <<>> THEN [db |-> d, kind |-> "return", val |-> None]
        ELSE [db |-> [d EXCEPT ![key] = Tail(@)], kind |-> "return", val |-> Head(d[key])]}
  ELSE {[db |-> d, kind |-> "raise", val |-> Exc("TypeError", "lpop() takes 2 positional arguments")]}
       \cup
       (IF count.n < 0
        THEN {[db |-> d, kind |-> "raise",
               val |-> Exc("ResponseError", "value is out of range, must be positive")]}
        ELSE IF d[key] = <<>> THEN {[db |-> d, kind |-> "return", val |-> None]}
        ELSE IF count.n = 0
        THEN {[db |-> d, kind |-> "return", val |-> None],
              [db |-> d, kind |-> "return", val |-> ListV(<<>>)]}
        ELSE IF count.n >= Len(d[key])
        THEN {[db |-> [d EXCEPT ![key] = <<>>], kind |-> "return", val |-> ListV(d[key])]}
        ELSE {[db |-> [d EXCEPT ![key] = SubSeq(@, count.n + 1, Len(@))], kind |-> "return",
               val |-> ListV(SubSeq(d[key], 1, count.n))]})

\* value = self.lpop(key, index); return None if value is None else bool(int(value))
lindex_bool(d, key, index) ==
  {IF r.kind = "raise" \/ r.val = None THEN r
   ELSE LET Cast(n) ==
              IF n.ok THEN [r EXCEPT !.val = BoolV(n.val.n # 0)]
              ELSE [r EXCEPT !.kind = "raise", !.val = n.exc]
        IN Cast(PyInt(IF r.val.t = "bytes" THEN StrV(r.val.s) ELSE r.val)) :
   r \in lpop(d, key, index)}

\* value = self.lpop(key, index); return None if value is None else int(value)
lindex_int(d, key, index) ==
  {IF r.kind = "raise" \/ r.val = None THEN r
   ELSE LET Cast(n) ==
              IF n.ok THEN [r EXCEPT !.val = n.val]
              ELSE [r EXCEPT !.kind = "raise", !.val = n.exc]
        IN Cast(PyInt(IF r.val.t = "bytes" THEN StrV(r.val.s) ELSE r.val)) :
   r \in lpop(d, key, index)}

\* value = self.lindex(key, index); return None if value is None else
\* value.decode('utf-8').  The server counts a negative index from the tail
\* and answers None outside the list; it changes nothing.
lindex_str(d, key, index) ==
  LET At(i) == IF i \in DOMAIN d[key] THEN Decode(d[key][i]) ELSE None
  IN {[db |-> d, kind |-> "return",
       val |-> At(IF index.n < 0 THEN Len(d[key]) + index.n + 1 ELSE index.n + 1)]}

\* value = self.lpop(key); return None if value is None else int(value)
lpop_int(d, key) ==
  {IF r.val = None THEN r
   ELSE LET Cast(n) ==
              IF n.ok THEN [r EXCEPT !.val = n.val]
              ELSE [r EXCEPT !.kind = "raise", !.val = n.exc]
        IN Cast(PyInt(StrV(r.val.s))) :
   r \in lpop(d, key, NoValue)}

\* self.lpush(key, int(bool(arg))): the server puts the item at the head and
\* answers the length of the list.
lpush_bool(d, key, arg) ==
  {[db |-> [d EXCEPT ![key] = <<Encode(IntV(IF PyBool(arg) THEN 1 ELSE 0))>> \o @],
    kind |-> "return", val |-> IntV(Len(d[key]) + 1)]}

\* self.lpush(key, int(arg))
lpush_int(d, key, arg) ==
  LET Push(n) ==
        IF n.ok
        THEN [db |-> [d EXCEPT ![key] = <<Encode(n.val)>> \o @], kind |-> "return",
              val |-> IntV(Len(d[key]) + 1)]
        ELSE [db |-> d, kind |-> "raise", val |-> n.exc]
  IN {Push(PyInt(arg))}

\* self.lpush(key, str(arg).encode('utf-8'))
lpush_str(d, key, arg) ==
  {[db |-> [d EXCEPT ![key] = <<Encode(arg)>> \o @], kind |-> "return",
    val |-> IntV(Len(d[key]) + 1)]}

\* [s.decode('utf-8') for s in self.lrange(key, start, stop)]: the items
\* from start to stop, both counted from the tail when negative.
lrange_str(d, key, start, stop) ==
  LET n == Len(d[key])
      Range(a, b) == [i \in 1..(IF b >= a THEN b - a + 1 ELSE 0) |-> Decode(d[key][a + i - 1])]
  IN Range(IF start.n < 0 THEN (IF n + start.n < 0 THEN 1 ELSE n + start.n + 1)
           ELSE start.n + 1,
           IF stop.n < 0 THEN n + stop.n + 1
           ELSE IF stop.n >= n THEN n ELSE stop.n + 1)

\* self.lset(key, index, str(int(value))): the server replaces the item at
\* the index and rejects an index outside the list.
lset_int(d, key, index, value) ==
  LET Set(i, n) ==
        IF ~n.ok THEN [db |-> d, kind |-> "raise", val |-> n.exc]
        ELSE IF i \notin DOMAIN d[key]
        THEN [db |-> d, kind |-> "raise", val |-> Exc("ResponseError", "index out of range")]
        ELSE [db |-> [d EXCEPT ![key][i] = Encode(n.val)], kind |-> "return", val |-> True]
  IN {Set(IF index.n < 0 THEN Len(d[key]) + index.n + 1 ELSE index.n + 1, PyInt(value))}

\* A client calls an accessor: the call ends in one of its ways.
Redis_Call(op, args, ends) ==
  /\ \E r \in ends :
       /\ db' = r.db
       /\ reply' = [op |-> op, args |-> args, kind |-> r.kind, val |-> r.val, before |-> db]
  /\ UNCHANGED <<mem, pc, decl, Struct, initExc, CompiledFunction, CompiledFunctionCode,
                 compiles, calls, Data, out, threads>>

\* The lists hold at most MaxItems items; the values pushed and set, and the
\* indexes asked for.
MaxItems == 2
Numbers == {IntV(0), IntV(1), IntV(5)}
Indexes == {IntV(0 - 1), IntV(0), IntV(1), IntV(2)}

RedisNext ==
  \/ \E key \in ListKeys, arg \in {True, False} :
       Len(db[key]) < MaxItems /\ Redis_Call("lpush_bool", <<key, arg>>, lpush_bool(db, key, arg))
  \/ \E key \in ListKeys, arg \in Numbers :
       Len(db[key]) < MaxItems /\ Redis_Call("lpush_int", <<key, arg>>, lpush_int(db, key, arg))
  \/ \E key \in ListKeys, arg \in {D_x} :
       Len(db[key]) < MaxItems /\ Redis_Call("lpush_str", <<key, arg>>, lpush_str(db, key, arg))
  \/ \E key \in ListKeys : Redis_Call("lpop_int", <<key>>, lpop_int(db, key))
  \/ \E key \in ListKeys, index \in Indexes, value \in Numbers :
       Redis_Call("lset_int", <<key, index, value>>, lset_int(db, key, index, value))
  \/ \E key \in ListKeys, index \in Indexes :
       Redis_Call("lindex_bool", <<key, index>>, lindex_bool(db, key, index))
  \/ \E key \in ListKeys, index \in Indexes :
       Redis_Call("lindex_int", <<key, index>>, lindex_int(db, key, index))
  \/ \E key \in ListKeys, index \in Indexes :
       Redis_Call("lindex_str", <<key, index>>, lindex_str(db, key, index))

RedisSpec == Init /\ [][RedisNext]_vars

(***************************************************************************)
(* The demo application (src/app.py): its request handlers.  A response is *)
(* given by its status (kind) and by what the page is made of (val): the   *)
(* address it redirects to, the errors, the name and the names it shows.   *)
(***************************************************************************)
\* GET / : names = Redis.lrange_str('dinner_name_list', 0, -1), shown
index ==
  /\ reply' = [op |-> "index", args |-> <<"GET">>, kind |-> "200",
               val |-> [location |-> "", errors |-> <<>>, name |-> None,
                        names |-> lrange_str(db, "dinner_name_list", IntV(0), IntV(0 - 1))],
               before |-> db]
  /\ UNCHANGED <<mem, pc, decl, Struct, initExc, CompiledFunction, CompiledFunctionCode,
                 compiles, calls, Data, out, threads, db>>

\* GET /dinner : one of the names is shown, names[random.randint(0,
\* len(names) - 1)]; with no names randint raises ValueError.
dinner ==
  /\ LET Pick(names) ==
           IF names = <<>>
           THEN reply' = [op |-> "dinner", args |-> <<"GET">>, kind |-> "500",
                          val |-> Exc("ValueError", "empty range for randrange()"),
                          before |-> db]
           ELSE \E i \in DOMAIN names :
                  reply' = [op |-> "dinner", args |-> <<"GET">>, kind |-> "200",
                            val |-> [location |-> "", errors |-> <<>>, name |-> names[i],
                                     names |-> <<>>],
                            before |-> db]
     IN Pick(lrange_str(db, "dinner_name_list", IntV(0), IntV(0 - 1)))
  /\ UNCHANGED <<mem, pc, decl, Struct, initExc, CompiledFunction, CompiledFunctionCode,
                 compiles, calls, Data, out, threads, db>>

\* /add without the `if errors: break`: a POST pushes the stripped name
\* whatever the checks found.
add_nobreak(method, form) ==
  /\ IF method = "POST" /\ form # NoValue
     THEN \E r \in lpush_str(db, "dinner_name_list", StrV(Strip(form.s))) :
            /\ db' = r.db
            /\ reply' = [op |-> "add", args |-> <<method, form>>, kind |-> "302",
                         val |-> [location |-> "/", errors |-> <<>>,
                                  name |-> StrV(Strip(form.s)), names |-> <<>>],
                         before |-> db]
     ELSE /\ reply' = [op |-> "add", args |-> <<method, form>>,
                       kind |-> IF method = "POST" THEN "400" ELSE "200",
                       val |-> [location |-> "", errors |-> <<>>, name |-> EmptyStr,
                                names |-> <<>>],
                       before |-> db]
          /\ UNCHANGED db
  /\ UNCHANGED <<mem, pc, decl, Struct, initExc, CompiledFunction, CompiledFunctionCode,
                 compiles, calls, Data, out, threads>>

\* GET or POST /add with the form field 'name' (NoValue when the form has
\* none).  POST: name = request.form['name'].strip(); with no error the name
\* is pushed and the response redirects to '/'.  Otherwise the form is
\* shown, with the errors and the name.
add(method, form) ==
  /\ LET name == IF method = "POST" /\ form # NoValue THEN StrV(Strip(form.s)) ELSE EmptyStr
         errors ==
           IF method # "POST" THEN <<>>
           ELSE (IF ~PyBool(name) THEN <<"Name is required.">> ELSE <<>>)
                \o (IF Len(name.s) > 10
                    THEN <<"Name must not be longer than 10 characters.">> ELSE <<>>)
     IN IF method = "POST" /\ form = NoValue
        THEN /\ reply' = [op |-> "add", args |-> <<method, form>>, kind |-> "400",
                          val |-> Exc("BadRequestKeyError", "name"), before |-> db]
             /\ UNCHANGED db
        ELSE IF method = "POST" /\ errors = <<>>
        THEN \E r \in lpush_str(db, "dinner_name_list", name) :
               /\ db' = r.db
               /\ reply' = [op |-> "add", args |-> <<method, form>>, kind |-> "302",
                            val |-> [location |-> "/", errors |-> <<>>, name |-> name,
                                     names |-> <<>>],
                            before |-> db]
        ELSE /\ reply' = [op |-> "add", args |-> <<method, form>>, kind |-> "200",
                          val |-> [location |-> "", errors |-> errors, name |-> name,
                                   names |-> <<>>],
                          before |-> db]
             /\ UNCHANGED db
  /\ UNCHANGED <<mem, pc, decl, Struct, initExc, CompiledFunction, CompiledFunctionCode,
                 compiles, calls, Data, out, threads>>

\* GET or POST /deletename/ with the query argument 'name' (NoValue when
\* there is none): name = request.args['name'], shown on a form.
delete(method, name) ==
  /\ reply' = IF name = NoValue
              THEN [op |-> "delete", args |-> <<method, name>>, kind |-> "400",
                    val |-> Exc("BadRequestKeyError", "name"), before |-> db]
              ELSE [op |-> "delete", args |-> <<method, name>>, kind |-> "200",
                    val |-> [location |-> "", errors |-> <<>>, name |-> name, names |-> <<>>],
                    before |-> db]
  /\ UNCHANGED <<mem, pc, decl, Struct, initExc, CompiledFunction, CompiledFunctionCode,
                 compiles, calls, Data, out, threads, db>>

\* GET /hi
hi ==
  /\ reply' = [op |-> "hi", args |-> <<"GET">>, kind |-> "200",
               val |-> [location |-> "", errors |-> <<>>, name |-> None, names |-> <<>>],
               before |-> db]
  /\ UNCHANGED <<mem, pc, decl, Struct, initExc, CompiledFunction, CompiledFunctionCode,
                 compiles, calls, Data, out, threads, db>>

\* The list holds at most MaxNames names; the names sent: none, empty,
\* blank, short, padded, of ten characters (one of them of two bytes) and
\* of eleven.
MaxNames == 2
D_Alexandrie == StrV(<<"A", "l", "e", "x", "a", "n", "d", "r", "i", "E9">>)
D_Alexandrias == StrV(<<"A", "l", "e", "x", "a", "n", "d", "r", "i", "a", "s">>)
Names ==
  {NoValue, EmptyStr, StrV(<<" ">>), D_ab, D_pad, D_Alexandria, D_Alexandrie, D_Alexandrias,
   StrV(<<" ">> \o D_Alexandria.s \o <<" ">>)}

AppNext ==
  \/ index
  \/ dinner
  \/ \E method \in {"GET", "POST"}, form \in Names :
       Len(db["dinner_name_list"]) < MaxNames /\ add(method, form)
  \/ \E method \in {"GET", "POST"}, name \in Names : delete(method, name)
  \/ hi

AppSpec == Init /\ [][AppNext]_vars


(***************************************************************************)
(* Properties                                                              *)
(***************************************************************************)
Nullable(S) == PyBool(DictGet(S, K_None, None))
DefaultOf(S) == DictGet(S, K_Default, None)
TypeOf(S) == DictGet(S, K_Type, None)
Done == out.st.done
Called == calls > 0
\* The validator built anew from the declaration as it was given.
Fresh(StructIn) == Python(InitMem, DataPath, Struct_(InitMem, DataPath, StructIn).Struct)
\* What the caller sees of a call: how it ended, with which value or records.
Outcome(o) == <<o.kind, o.rval, o.cause.kind, o.cause.errs>>
\* A call as it ended, whatever the caller did with the value since.
Run(o) == [o EXCEPT !.rval = IF o.kind = "return" THEN o.st.env[vo(0)] ELSE NoValue]

\* The names of the fields of an Object node.
FieldNames(S) == {k \in KeySet(S) : ~StartsWith(k.s, "+")}

RECURSIVE Nodes(_, _, _)
\* The nodes of the input tree: the node a value meets, and with it the
\* nodes its fields, keys, values and elements meet, each with its path.
Nodes(S, StructPath, v) ==
  LET a == IF v = None THEN DefaultOf(S) ELSE v
      T == TypeOf(S)
      sub(slot, x) == Nodes(DictGet(S, slot, None), Append(StructPath, slot), x)
  IN {<<StrV(JoinPath(StructPath)), v>>} \cup
     CASE T = T_Object /\ a.t = "dict" ->
            UNION {sub(k, DictGet(a, k, None)) : k \in FieldNames(S)}
       [] T = T_Map /\ a.t = "dict" ->
            UNION {sub(K_KeyType, a.kv[i][1]) \cup sub(K_ValueType, a.kv[i][2]) :
                     i \in DOMAIN a.kv}
       [] T = T_Set /\ Iterable(a) ->
            UNION {sub(K_ValueType, Iter(a)[i]) : i \in DOMAIN Iter(a)}
       [] T = T_List /\ Iterable(a) /\ a.t # "str" ->
            UNION {sub(K_ValueType, Iter(a)[i]) : i \in DOMAIN Iter(a)}
       [] OTHER -> {}

\* Every node of the input tree was entered and left by the call o.
Walked(code, data, o) ==
  /\ {o.st.visited[i] : i \in DOMAIN o.st.visited} = Nodes(code.Struct, code.StructPath, data)
  /\ Len(o.st.done) = Len(o.st.visited)

\* C1: a fault at any node is caught at that node and recorded, the rest of
\* the tree is still validated, and the one failure raised carries the
\* records of all faulty nodes: after every call each node of the input tree
\* was entered and left, each fault caught added its record at its node's
\* path, and a failing call fails with the list of records.
C1_AllFaultsReported ==
  Called =>
    /\ Walked(CompiledFunction, Data, out)
    /\ \A i \in DOMAIN Done :
         Done[i].caught =>
           /\ Done[i].errs # <<>>
           /\ Done[i].errs[Len(Done[i].errs)][1] = Done[i].path
    /\ out.kind = "raise" =>
         /\ out.cause.kind = "Exception"
         /\ out.cause.errs = out.st.errs

\* C2: a call returns the coerced output if and only if the error list is
\* empty after the whole tree was walked; with a non-empty list it fails,
\* after the full traversal, and returns nothing.
C2_ReturnsIffNoErrors ==
  Called =>
    /\ out.kind = "return" <=> out.st.errs = <<>>
    /\ out.kind = "return" => out.walked
    /\ out.st.errs # <<>> =>
         /\ out.kind = "raise"
         /\ out.cause.kind = "Exception"
         /\ Walked(CompiledFunction, Data, out)
         /\ out.rval = NoValue

\* C3: at a node without a default, a None input gives output None and no
\* record when the node is nullable, and exactly one record, at the node's
\* path, when it is not; the node's type handler runs in neither case.
C3_NullHandling ==
  /\ \A i \in DOMAIN Done :
       (DefaultOf(Done[i].Struct) = None /\ Done[i].in = None) =>
         /\ ~Done[i].ran
         /\ IF Nullable(Done[i].Struct)
            THEN Done[i].out = None /\ Done[i].errs = <<>>
            ELSE Len(Done[i].errs) = 1 /\ Done[i].errs[1][1] = Done[i].path
  /\ (Called /\ Data = None /\ DefaultOf(Struct) = None) =>
       IF Nullable(Struct)
       THEN out.kind = "return" /\ out.rval = None
       ELSE /\ out.kind = "raise"
            /\ Len(out.cause.errs) = 1
            /\ out.cause.errs[1][1] = StrV(JoinPath(DataPath))

\* An Object was given None for a nullable field and for a field that is
\* not nullable, neither with a default.
C3_Witness ==
  /\ Called
  /\ \E i, j \in DOMAIN Done :
       /\ Done[i].in = None /\ Done[j].in = None
       /\ DefaultOf(Done[i].Struct) = None /\ DefaultOf(Done[j].Struct) = None
       /\ Nullable(Done[i].Struct) /\ Done[i].out = None
       /\ ~Nullable(Done[j].Struct) /\ Len(Done[j].errs) = 1
       /\ Done[i].path # Done[j].path

\* C4 (as the code has it): at a node with a non-null default, a None or
\* absent input is replaced by the default as it was declared when the
\* validator was built, and the node's type handler then runs on it as on
\* any input, so the call ends as it would had the caller passed the
\* default itself; neither a change of the caller's default object nor a
\* change of a returned value changes what a call does: every call ends as
\* it does on a validator built anew from the original declaration.
C4_DefaultSubstituted ==
  /\ CompiledFunction # None => CompiledFunction = Fresh(decl)
  /\ Called => Run(out) = Run(Call_(Fresh(decl), Data))
  /\ \A i \in DOMAIN Done :
       (DefaultOf(Done[i].Struct) # None /\ Done[i].in = None) =>
         Done[i].ran /\ Done[i].arg = DefaultOf(Done[i].Struct)
  /\ (Called /\ Data = None /\ DefaultOf(Struct) # None) =>
       Outcome(Run(out)) = Outcome(Call_(Fresh(decl), DefaultOf(Fresh(decl).Struct)))

\* The second call of a validator whose default is the caller's list gave
\* the list as it was declared, after the caller had appended to its list.
C4_Witness ==
  /\ calls = 2
  /\ Mentions(decl, Ref(1))
  /\ mem[1] = DefaultObjectMutated
  /\ Data = None
  /\ out.kind = "return"
  /\ out.rval = ListV(<<IntV(1)>>)

\* C4 as stated: a None or absent input yields the default itself as the
\* node's output, and the code holds the defaults as declared.
C4_DefaultYielded ==
  /\ \A i \in DOMAIN Done :
       (DefaultOf(Done[i].Struct) # None /\ Done[i].in = None) =>
         Done[i].out = DefaultOf(Done[i].Struct) /\ Done[i].errs = <<>>
  /\ CompiledFunction # None => CompiledFunction = Fresh(decl)

\* The schema {Name: String(MaxLength=3), Age: Integer?}.
NameAge ==
  DictV(<< <<K_Type, T_Object>>,
           <<F_Name, WithAttr(Typed(T_String), K_MaxLength, IntV(3))>>,
           <<F_Age, Q(T_Integer)>> >>)

\* C5: with {Name: String(MaxLength=3), Age: Integer?} and {"Name":
\* "Alexandria", "Age": null} the call fails with exactly one record, at
\* Name, saying "too long", and Age is None without a record; and every
\* String node whose input is longer than its MaxLength adds one "too long"
\* record at its path while the whole tree is still walked.
C5_TooLong ==
  Called =>
    /\ (decl = NameAge /\ Data = DictV(<< <<F_Name, D_Alexandria>>, <<F_Age, None>> >>)) =>
         /\ out.kind = "raise"
         /\ out.rval = NoValue
         /\ Len(out.cause.errs) = 1
         /\ out.cause.errs[1][1] = StrV(JoinPath(Append(DataPath, F_Name)))
         /\ out.cause.errs[1][2] = "Input too long"
         /\ \E i \in DOMAIN Done :
              /\ Done[i].path = StrV(JoinPath(Append(DataPath, F_Age)))
              /\ Done[i].out = None /\ Done[i].errs = <<>>
    /\ \A i \in DOMAIN Done :
         LET e == Done[i]
             MaxLength == DictGet(e.Struct, K_MaxLength, None)
         IN (TypeOf(e.Struct) = T_String /\ MaxLength # None /\ e.ran
             /\ e.arg.t = "str" /\ Len(Strip(e.arg.s)) > MaxLength.n) =>
              /\ Len(e.errs) = 1
              /\ e.errs[1][1] = e.path
              /\ e.errs[1][2] = "Input too long"
    /\ (TypeOf(Struct) = T_Object /\ FieldNames(Struct) # {}
        /\ \A k \in FieldNames(Struct) : TypeOf(DictGet(Struct, k, None)) \in {T_String, T_Integer})
         => Walked(CompiledFunction, Data, out)

\* The schema List(ValueType=Integer).
ListOfInteger == DictV(<< <<K_Type, T_List>>, <<K_ValueType, T_Integer>> >>)
\* The index a record refers to: the record's key.
RecordIndex(rec) == rec[3]

\* C6: a fault of one element of a Map, Set or List does not stop the
\* validation of the other elements; for List(ValueType=Integer) and
\* ["1","x","3"] there is exactly one record, it refers to index 1, and the
\* elements at 0 and 2 are coerced.
C6_ElementFaults ==
  Called =>
    /\ TypeOf(Struct) \in {T_Map, T_Set, T_List}
         => Walked(CompiledFunction, Data, out)
    /\ (decl = ListOfInteger /\ Data = ListV(<<D_1, D_x, D_3>>)) =>
         /\ Len(out.cause.errs) = 1
         /\ RecordIndex(out.cause.errs[1]) = IntV(1)
         /\ Len(Done) = 4
         /\ Done[1].out = IntV(1) /\ Done[1].errs = <<>>
         /\ Done[3].out = IntV(3) /\ Done[3].errs = <<>>

\* An element of the node S that is valid: a string for String, the
\* numeral of an integer for Integer and Decimal.
ValidElement(S, v) ==
  /\ v.t = "str"
  /\ DefaultOf(S) = None
  /\ CASE TypeOf(S) = T_String ->
            /\ DictGet(S, K_MaxLength, None) = None
            /\ DictGet(S, K_MinLength, None) = None
            /\ DictGet(S, K_Regex, None) = None
       [] TypeOf(S) \in {T_Integer, T_Decimal} -> IsIntLiteral(v.s)
       [] OTHER -> FALSE

\* C7: a List with Length n given a list of valid elements adds exactly
\* one record, at the list's own path, when the list has not n elements,
\* and none when it has n.
C7_ListLength ==
  LET Length == DictGet(Struct, K_Length, None)
  IN (/\ Called
      /\ TypeOf(Struct) = T_List
      /\ Length # None
      /\ Data.t = "list"
      /\ \A i \in DOMAIN Data.xs : ValidElement(DictGet(Struct, K_ValueType, None), Data.xs[i])) =>
       IF Len(Data.xs) = Length.n
       THEN out.kind = "return" /\ out.st.errs = <<>>
       ELSE /\ out.kind = "raise"
            /\ Len(out.cause.errs) = 1
            /\ out.cause.errs[1][1] = StrV(JoinPath(DataPath))

RECURSIVE Satisfies(_, _)
\* The value v satisfies every constraint of the node S (of the types
\* Integer, Decimal, String, List and Object).
Satisfies(S, v) ==
  LET a == IF v = None THEN DefaultOf(S) ELSE v
      T == TypeOf(S)
      Within(n) ==
        /\ (DictGet(S, K_Length, None) # None => n = DictGet(S, K_Length, None).n)
        /\ (DictGet(S, K_MaxLength, None) # None => n <= DictGet(S, K_MaxLength, None).n)
        /\ (DictGet(S, K_MinLength, None) # None => n >= DictGet(S, K_MinLength, None).n)
  IN IF a = None THEN Nullable(S)
     ELSE CASE T \in {T_Integer, T_Decimal} ->
                 a.t = "int" \/ (a.t = "str" /\ IsIntLiteral(a.s))
            [] T = T_String ->
                 /\ a.t = "str"
                 /\ DictGet(S, K_Regex, None) = None
                 /\ Within(Len(a.s)) /\ Within(Len(Strip(a.s)))
            [] T = T_List ->
                 /\ a.t = "list"
                 /\ Within(Len(a.xs))
                 /\ \A i \in DOMAIN a.xs : Satisfies(DictGet(S, K_ValueType, None), a.xs[i])
            [] T = T_Object ->
                 /\ a.t = "dict"
                 /\ \A k \in FieldNames(S) : Satisfies(DictGet(S, k, None), DictGet(a, k, None))
            [] OTHER -> FALSE

RECURSIVE Shaped(_, _)
\* The output o has the shape of the node S.
Shaped(S, o) ==
  LET T == TypeOf(S)
  IN \/ o = None /\ Nullable(S)
     \/ CASE T = T_Integer -> o.t = "int"
          [] T = T_Decimal -> o.t \in {"int", "float"}
          [] T = T_String -> o.t = "str"
          [] T = T_List ->
               o.t = "list" /\ \A i \in DOMAIN o.xs : Shaped(DictGet(S, K_ValueType, None), o.xs[i])
          [] T = T_Object ->
               /\ o.t = "dict"
               /\ \A k \in FieldNames(S) : HasKey(o, k) /\ Shaped(DictGet(S, k, None), DictGet(o, k, NoValue))
          [] OTHER -> FALSE

TagsSchema ==
  DictV(<< <<K_Type, T_Object>>,
           <<F_Tags, DictV(<< <<K_Type, T_List>>, <<K_ValueType, T_String>> >>)>> >>)
\* C8: an input that satisfies every constraint of the schema validates,
\* and the output has the schema's shape, every declared field present;
\* {Tags: List(ValueType=String)} with {"Tags": ["a","b"]} returns
\* {"Tags": ["a","b"]}.
C8_ValidInputSucceeds ==
  Called =>
    /\ Satisfies(Struct, Data) =>
         /\ Run(out).kind = "return"
         /\ Shaped(Struct, Run(out).rval)
    /\ (decl = TagsSchema /\ Data = DictV(<< <<F_Tags, ListV(<<D_a, D_b>>)>> >>)) =>
         Run(out).rval = Data

\* The attributes of a declaration that neither the common part of Struct_
\* nor the handler of its type has taken.
Unconsumed(StructIn) ==
  LET h == Struct_Head(DataPath, Struct_Shorthand(StructIn))
      d == Struct_Dispatch(InitMem, DataPath, h.StructIn, h.Struct)
  IN KeySet(d.StructIn) \ {K_Default}

\* C9: normalization fails whenever the declaration holds an attribute that
\* the handler of its type does not consume; none is silently ignored.
C9_UnconsumedRejected ==
  pc = "built" => Unconsumed(decl) = {}

\* The two ways a declaration says nullable: the '?' that ends its tag and
\* the '+None' flag.
TagOf(StructIn) == IF StructIn.t = "str" THEN StructIn ELSE DictGet(StructIn, K_Type, None)
Marked(StructIn) == EndsWith(TagOf(StructIn).s, "?")
Flagged(StructIn) == StructIn.t = "dict" /\ HasKey(StructIn, K_None)
\* The declaration with neither: one '?' taken off the tag, no '+None'.
Unmarked(StructIn) ==
  LET tag == StrV(RemoveSuffix(TagOf(StructIn).s, "?"))
  IN IF StructIn.t = "str" THEN tag
     ELSE DictSet(DictDel(StructIn, K_None), K_Type, tag)

\* C10: a mapping whose tag ends in '?' and that also holds '+None',
\* whatever its value, fails to normalize; a declaration that is valid
\* without its mark and flag normalizes, with Nullable true for a tag
\* ending in '?', the truth value of '+None' for the flag alone, false for
\* neither; and the tag stored never ends in '?'.
C10_Nullable ==
  (pc # "new" /\ decl.t \in {"str", "dict"} /\ TagOf(decl).t = "str") =>
    /\ (decl.t = "dict" /\ Marked(decl) /\ Flagged(decl)) =>
         pc = "failed" /\ initExc.kind = "TypeError"
    /\ (/\ ~(decl.t = "dict" /\ Marked(decl) /\ Flagged(decl))
        /\ ~Marked(Unmarked(decl))
        /\ Struct_(InitMem, DataPath, Unmarked(decl)).ok) =>
         /\ pc = "built"
         /\ DictGet(Struct, K_None, None) =
              IF Marked(decl) THEN True
              ELSE IF Flagged(decl) THEN BoolV(PyBool(DictGet(decl, K_None, None)))
              ELSE False
    /\ pc = "built" => ~EndsWith(TypeOf(Struct).s, "?")

\* A bare string with '?' and a mapping with a true '+None' were both
\* normalized to nullable nodes.
C10_Witness ==
  /\ pc = "built"
  /\ Marked(decl)
  /\ decl.t = "str"
  /\ Nullable(Struct)
  /\ ~EndsWith(TypeOf(Struct).s, "?")

\* The attributes its type requires that a declaration lacks: '+Type'
\* itself, '+KeyType' and '+ValueType' of a Map, '+ValueType' of a Set or
\* List, '+Values' of an Enum.
Missing(StructIn) ==
  LET SI == Struct_Shorthand(StructIn)
      Type == DictGet(SI, K_Type, None)
      T == IF Type.t = "str" THEN StrV(RemoveSuffix(Type.s, "?")) ELSE Type
  IN IF SI.t # "dict" THEN {}
     ELSE IF ~HasKey(SI, K_Type) THEN {K_Type}
     ELSE CASE T = T_Map -> {K_KeyType, K_ValueType} \ KeySet(SI)
            [] T \in {T_Set, T_List} -> {K_ValueType} \ KeySet(SI)
            [] T = T_Enum -> {K_Values} \ KeySet(SI)
            [] OTHER -> {}

\* The kind of error normalization raises for an unknown type tag.
SchemaErrorKind == Struct_(InitMem, DataPath, T_Bogus).exc.kind

\* C11: a declaration that lacks an attribute its type requires fails to
\* normalize with the kind of error an unknown type tag raises, and leaves
\* neither a node tree nor compiled code.
C11_MissingRequired ==
  (pc # "new" /\ Missing(decl) # {}) =>
    /\ pc = "failed"
    /\ initExc.kind = SchemaErrorKind
    /\ Struct = None
    /\ CompiledFunction = None

\* C12: an Integer node's declared '+MinValue' and '+MaxValue' are stored
\* in the node as declared; an input that coerces to an integer outside
\* the declared range adds one record at the node, and one inside the range
\* is accepted as that integer.
C12_IntegerRange ==
  (pc = "built" /\ decl.t = "dict" /\ TypeOf(decl) = T_Integer) =>
    LET MinValue == DictGet(decl, K_MinValue, None)
        MaxValue == DictGet(decl, K_MaxValue, None)
        n == PyInt(Data)
    IN /\ DictGet(Struct, K_MinValue, None) = MinValue
       /\ DictGet(Struct, K_MaxValue, None) = MaxValue
       /\ (/\ Called /\ Data # None /\ n.ok
           /\ MinValue.t \in {"None", "int"} /\ MaxValue.t \in {"None", "int"}) =>
            IF \/ MinValue # None /\ n.val.n < MinValue.n
               \/ MaxValue # None /\ n.val.n > MaxValue.n
            THEN /\ out.kind = "raise"
                 /\ Len(out.cause.errs) = 1
                 /\ out.cause.errs[1][1] = StrV(JoinPath(DataPath))
            ELSE out.kind = "return" /\ out.rval = n.val

\* The string a String or Email node with a true '+Strip' makes of its
\* input: str(v), trimmed.
Coerced(v) == StrV(Strip(PyStr(v).s))

\* C13: a String or Email node with MinLength m and no other constraint
\* adds one "too short" record at its path when the coerced string is
\* shorter than m, and accepts the coerced string when its length is at
\* least m.
C13_MinLength ==
  \A i \in DOMAIN Done :
    LET e == Done[i]
        MinLength == DictGet(e.Struct, K_MinLength, None)
    IN (/\ TypeOf(e.Struct) \in {T_String, T_Email}
        /\ MinLength # None
        /\ DictGet(e.Struct, K_MaxLength, None) = None
        /\ DictGet(e.Struct, K_Regex, None) = None
        /\ DictGet(e.Struct, K_Strip, None) = True
        /\ e.ran) =>
         IF Len(Coerced(e.arg).s) < MinLength.n
         THEN /\ Len(e.errs) = 1
              /\ e.errs[1][1] = e.path
              /\ e.errs[1][2] = "Input too short"
         ELSE e.errs = <<>> /\ e.out = Coerced(e.arg)

\* C14: a String or Email node trims the coerced string exactly when its
\* '+Strip' is true, which it is when not declared; with '+Strip' declared
\* false the output keeps the surrounding whitespace and '+MaxLength' is
\* tested on the untrimmed string.
C14_Strip ==
  \A i \in DOMAIN Done :
    LET e == Done[i]
        MaxLength == DictGet(e.Struct, K_MaxLength, None)
        s == IF DictGet(e.Struct, K_Strip, None) = True
             THEN Coerced(e.arg) ELSE PyStr(e.arg)
    IN (/\ TypeOf(e.Struct) \in {T_String, T_Email}
        /\ DictGet(e.Struct, K_MinLength, None) = None
        /\ DictGet(e.Struct, K_Regex, None) = None
        /\ e.ran) =>
         IF MaxLength # None /\ Len(s.s) > MaxLength.n
         THEN /\ Len(e.errs) = 1
              /\ e.errs[1][1] = e.path
              /\ e.errs[1][2] = "Input too long"
         ELSE e.errs = <<>> /\ e.out = s

\* C15: an Object node copies every input key that is not a declared field
\* to its output, with the input's value, when '+Extra' is true, and leaves
\* it out when it is not, without a record in either case; an input that
\* is neither a mapping nor None adds one record at the Object's path and
\* no field is validated.
C15_ExtraFields ==
  /\ \A i \in DOMAIN Done :
       LET e == Done[i]
       IN (TypeOf(e.Struct) = T_Object /\ e.ran) =>
            IF e.arg.t = "dict"
            THEN /\ ~e.caught
                 /\ \A k \in KeySet(e.arg) \ FieldNames(e.Struct) :
                      IF PyBool(DictGet(e.Struct, K_Extra, None))
                      THEN HasKey(e.out, k) /\ DictGet(e.out, k, NoValue) = DictGet(e.arg, k, NoValue)
                      ELSE ~HasKey(e.out, k)
            ELSE /\ Len(e.errs) = 1
                 /\ e.errs[1][1] = e.path
  /\ (Called /\ TypeOf(Struct) = T_Object /\ Data # None /\ Data.t # "dict"
      /\ DefaultOf(Struct) = None) =>
       /\ Len(out.st.visited) = 1
       /\ Len(out.cause.errs) = 1
       /\ out.cause.errs[1][1] = StrV(JoinPath(DataPath))

\* An input no Integer node accepts.
NotInteger(v) == v # None /\ ~PyInt(v).ok

\* C16: a Map validates the key of every entry by '+KeyType' and the value
\* of every entry by '+ValueType', whatever faults the other keys and
\* values have: every key and value node of the input is entered and left,
\* in the order of the entries, and with Integer keys and values an entry
\* adds a record at the '+KeyType' path for an invalid key and one at the
\* '+ValueType' path for an invalid value, two when both are invalid.
C16_MapEntries ==
  (Called /\ TypeOf(Struct) = T_Map /\ Data.t = "dict") =>
    LET KeyType == DictGet(Struct, K_KeyType, None)
        ValueType == DictGet(Struct, K_ValueType, None)
        KeyPath == StrV(JoinPath(Append(DataPath, K_KeyType)))
        ValuePath == StrV(JoinPath(Append(DataPath, K_ValueType)))
        Keys == {i \in DOMAIN Done : Done[i].path = KeyPath}
        Values == {i \in DOMAIN Done : Done[i].path = ValuePath}
    IN /\ Walked(CompiledFunction, Data, out)
       /\ Cardinality(Keys) = Len(Data.kv)
       /\ Cardinality(Values) = Len(Data.kv)
       /\ \A j \in DOMAIN Data.kv :
            /\ \E k \in Keys, v \in Values :
                 /\ k < v
                 /\ Cardinality({x \in Keys : x < k}) = j - 1
                 /\ Cardinality({x \in Values : x < v}) = j - 1
                 /\ Done[k].in = Data.kv[j][1]
                 /\ Done[v].in = Data.kv[j][2]
                 /\ (TypeOf(KeyType) = T_Integer /\ NotInteger(Data.kv[j][1])) =>
                      Len(Done[k].errs) = 1 /\ Done[k].errs[1][1] = KeyPath
                 /\ (TypeOf(ValueType) = T_Integer /\ NotInteger(Data.kv[j][2])) =>
                      Len(Done[v].errs) = 1 /\ Done[v].errs[1][1] = ValuePath

\* s is an initial part of t
IsPrefix(s, t) == Len(s) <= Len(t) /\ SubSeq(t, 1, Len(s)) = s

\* The record rec was added at the field k of the root Object or below it.
AtField(rec, k) ==
  \/ rec[1].s = JoinPath(Append(DataPath, k))
  \/ IsPrefix(JoinPath(Append(DataPath, k)) \o <<"/">>, rec[1].s)

\* The place of a record among the fields of the root Object as declared:
\* the index in the declaration of the field the record was added at or
\* below, one past the last for a record of the Object itself.
FieldPlace(rec) ==
  IF \E j \in DOMAIN decl.kv : AtField(rec, decl.kv[j][1])
  THEN CHOOSE j \in DOMAIN decl.kv : AtField(rec, decl.kv[j][1])
  ELSE Len(decl.kv) + 1

\* C17: the list errs of a call only grows at its end: the list a node
\* finds when entered begins the list it leaves, which begins the list of
\* the call, and that list is what the failure carries; the records of a
\* root Object's fields are in the order the fields were declared; the
\* elements of a root List or Set are validated in the input's order, the
\* records of one before those of the next.
C17_ErrsOrdered ==
  Called =>
    /\ \A i \in DOMAIN Done :
         /\ IsPrefix(Done[i].before, Done[i].after)
         /\ IsPrefix(Done[i].after, out.st.errs)
         /\ Done[i].errs = SubSeq(Done[i].after, Len(Done[i].before) + 1, Len(Done[i].after))
    /\ out.cause.kind = "Exception" => out.cause.errs = out.st.errs
    /\ (decl.t = "dict" /\ TypeOf(Struct) = T_Object) =>
         \A a, b \in DOMAIN out.st.errs :
           a < b => FieldPlace(out.st.errs[a]) <= FieldPlace(out.st.errs[b])
    /\ (TypeOf(Struct) \in {T_List, T_Set} /\ Data.t = "list") =>
         LET Elems == {i \in DOMAIN Done :
                         Done[i].path = StrV(JoinPath(Append(DataPath, K_ValueType)))}
         IN \A i \in Elems :
              /\ Cardinality({j \in Elems : j < i}) < Len(Data.xs)
              /\ Done[i].in = Data.xs[Cardinality({j \in Elems : j < i}) + 1]
              /\ \A j \in Elems : j < i => IsPrefix(Done[j].after, Done[i].before)

\* A call on an Object with two faulty fields failed with the record of
\* the first declared field before that of the second.
C17_Witness ==
  /\ Called
  /\ TypeOf(Struct) = T_Object
  /\ out.cause.kind = "Exception"
  /\ Len(out.cause.errs) = 2
  /\ out.cause.errs[1][1] = StrV(JoinPath(Append(DataPath, F_A)))
  /\ out.cause.errs[2][1] = StrV(JoinPath(Append(DataPath, F_B)))

\* C18: whatever the interleaving of the calls of several threads on one
\* validator, and equally one after another, every call ends as it would
\* run alone on its input on a validator built from the declaration: with
\* the same value or the same list of records, no record of another call
\* among them; and the node tree and the compiled code are those built
\* from the declaration, whatever calls were made.
C18_Reentrant ==
  /\ pc = "built" => Struct = Struct_(InitMem, DataPath, decl).Struct
  /\ CompiledFunction # None => CompiledFunction = Fresh(decl)
  /\ \A t \in Threads :
       /\ threads[t].pc = "leave" =>
            threads[t].frame = AS3_Generated_Function(Fresh(decl), threads[t].Data).st
       /\ threads[t].pc = "done" =>
            threads[t].out = Call_(Fresh(decl), threads[t].Data)

\* A thread's call began while another thread's call was running the
\* generated function and ended first, both with records, on different
\* inputs; the first call then ended too.
C18_Witness ==
  \E t, u \in Threads :
    /\ threads[t].seq = 1 /\ threads[u].seq = 2
    /\ threads[t].pc = "done" /\ threads[u].pc = "leave"
    /\ threads[t].Data # threads[u].Data
    /\ threads[t].out.cause.errs # <<>>
    /\ threads[u].frame.errs # <<>>

\* A call that ended in an ordinary validation failure: the tree was
\* walked and errs was not empty.
Invalid(o) == o.kind = "raise" /\ o.cause.kind = "Exception" /\ o.cause.errs # <<>>
\* A call that ended in a fault of the generated code itself.
Faulted(o) == o.kind = "raise" /\ ~Invalid(o)
\* The kind of failure __call__ raises for an invalid input, and for a
\* fault of the generated code (the name Decimal, which it does not define).
KindOfInvalid == Call_(Fresh(T_Integer), D_x).exc
KindOfFault == Call_(Fresh(T_Decimal), D_1).exc

\* C19: a fault of the generated code reaches the caller as a failure of
\* another kind than a validation failure does, so the kind of the failure
\* raised tells which of the two happened.
C19_FaultKind ==
  Called =>
    /\ Invalid(out) => out.exc # KindOfFault
    /\ Faulted(out) => out.exc # KindOfInvalid

\* The records as one value a caller can take apart: a list of tuples of
\* path, message, key and value.
Records(errs) ==
  ListV([i \in DOMAIN errs |->
           ListV(<<errs[i][1], StrV(<<errs[i][2]>>), errs[i][3], errs[i][4]>>)])

\* C20: the failure raised by a call that found faults carries the records
\* as an ordered list of (path, message, key, value), each part of each
\* record a value of its own.
C20_StructuredErrors ==
  (Called /\ Invalid(out)) =>
    /\ out.arg.t = "list"
    /\ out.arg = Records(out.st.errs)

RECURSIVE HasUndefined(_)
\* The value is the sentinel Undefined or holds it somewhere: as an element
\* of a list or of a set, as a key or as a value of a mapping.
HasUndefined(v) ==
  \/ v = Undefined
  \/ v.t = "list" /\ \E i \in DOMAIN v.xs : HasUndefined(v.xs[i])
  \/ v.t = "set" /\ \E x \in v.S : HasUndefined(x)
  \/ v.t = "dict" /\ \E i \in DOMAIN v.kv : HasUndefined(v.kv[i][1]) \/ HasUndefined(v.kv[i][2])

\* C21: the sentinel Undefined never reaches the caller: the input holding
\* none, a value a call returned holds Undefined nowhere, and whenever a
\* node left its output variable at Undefined, or a container took Undefined
\* into its output, the call failed.
C21_NoUndefined ==
  (Called /\ ~HasUndefined(Data)) =>
    /\ out.kind = "return" => ~HasUndefined(Run(out).rval) /\ ~HasUndefined(out.rval)
    /\ (\E i \in DOMAIN Done : HasUndefined(Done[i].out)) => out.kind = "raise"

\* A call failed in which a list or a mapping had taken Undefined into its
\* output for the member whose node failed.
C21_Witness ==
  /\ Called /\ out.kind = "raise"
  /\ \E i \in DOMAIN Done : Done[i].out.t \in {"list", "dict"} /\ HasUndefined(Done[i].out)

\* C22: a Decimal node given a non-null input that denotes a number coerces
\* it to a decimal: the call returns that decimal, with no record and no
\* fault of the generated code.
C22_DecimalCoerced ==
  (/\ pc = "built" /\ Called /\ TypeOf(Struct) = T_Decimal
   /\ Data # None /\ DECIMALN(Data).ok) =>
    /\ out.kind = "return"
    /\ Run(out).rval = DECIMALN(Data).val
    /\ out.st.errs = <<>>

C24_AbsentAsNull ==
  (pc = "built" /\ Called /\ TypeOf(Struct) = T_Object /\ Data.t = "dict") =>
    \A k \in FieldNames(Struct) \ KeySet(Data) :
      /\ Outcome(Call_(CompiledFunction, DictSet(Data, k, None))) = Outcome(Run(out))
      /\ out.walked =>
           \E i \in DOMAIN Done :
             /\ Done[i].path = StrV(JoinPath(Append(DataPath, k)))
             /\ Done[i].in = None

\* A call on a mapping that lacks the two declared fields, one of them
\* nullable and given None, the other not nullable and given a record.
C24_Witness ==
  /\ pc = "built" /\ Called /\ TypeOf(Struct) = T_Object /\ Data = DictV(<<>>)
  /\ \E i, j \in DOMAIN Done :
       /\ Done[i].in = None /\ Done[i].out = None /\ Done[i].errs = <<>>
       /\ Done[j].in = None /\ Len(Done[j].errs) = 1
       /\ Done[i].path = StrV(JoinPath(Append(DataPath, F_B)))
       /\ Done[j].path = StrV(JoinPath(Append(DataPath, F_A)))

\* C25: compilation is performed exactly once per validator: a validator
\* holds no compiled function before its first compilation, every call that
\* has entered the generated function did so after a compilation and with
\* the function the validator holds, and whatever the sequence or the
\* interleaving of the calls, Compile never runs a second time.
C25_CompiledOnce ==
  /\ compiles <= 1
  /\ compiles = 0 => CompiledFunction = None
  /\ Called /\ out.kind # "none" => compiles = 1 /\ CompiledFunction # None
  /\ \A t \in Threads :
       threads[t].pc \in {"body", "leave", "done"} =>
         compiles = 1 /\ threads[t].fn = CompiledFunction

\* The variables that belong to the nodes enclosing a node at depth d, among
\* those of env: the input and output variables of lesser depth, and the key
\* and value variables the enclosing Map bound for the node's entry.
Enclosing(env, d) ==
  {n \in DOMAIN env :
     /\ n[1] \in {"vi", "vo", "data"}
     /\ n[2] < d \/ (n[2] = d /\ n[3] \in {"k", "v"})}

\* C26: the code of a node leaves the variables of every enclosing node as
\* it found them: when a node's code is left, at any depth and under any
\* container, each enclosing node's input, partial output and entry key and
\* value are what they were when the node's code was entered; and a record
\* a node appends for itself carries, in its key and value places, what the
\* enclosing container bound for that node's entry (or the node's default,
\* put in place of a None input), never a part of a nested entry.
C26_Frame ==
  \A i \in DOMAIN Done :
    LET e == Done[i]
        Own(x, bound) ==
          \/ x = bound
          \/ e.in = None /\ bound = None /\ x = DefaultOf(e.Struct)
    IN /\ \A n \in Enclosing(e.envIn, e.depth) : e.envOut[n] = e.envIn[n]
       /\ e.caught =>
            /\ e.after[Len(e.after)][1] = e.path
            /\ Own(e.after[Len(e.after)][3], e.key)
            /\ Own(e.after[Len(e.after)][4], e.value)

\* An inner list of a list of lists has added a record for its own length
\* after its element added one: the inner list's record carries the inner
\* list, the element's record the element.
C26_Witness ==
  \E i, j \in DOMAIN Done :
    /\ i < j
    /\ Done[i].depth = 2 /\ Done[i].caught /\ Done[i].errs[1][4] = D_x
    /\ Done[j].depth = 1 /\ Done[j].caught
    /\ Done[j].after[Len(Done[j].after)][4] = ListV(<<D_x, D_1>>)
    /\ Done[j].envOut[vi(0)] = Data
    /\ Enclosing(Done[i].envIn, 2) = {Var("data", 0, ""), vi(0), vo(0), vi(1), vo(1)}

\* The message of the record a node appended for itself, "" when it
\* appended none.
OwnMessage(e) == IF e.caught THEN e.after[Len(e.after)][2] ELSE ""

\* The first check of a String node, in the order MinLength, MaxLength,
\* Regex, that the string s violates; "" when it violates none.
FirstViolatedString(S, s) ==
  LET MinLength == DictGet(S, K_MinLength, None)
      MaxLength == DictGet(S, K_MaxLength, None)
      Regex == DictGet(S, K_Regex, None)
  IN IF MinLength # None /\ Len(s.s) < MinLength.n THEN "Input too short"
     ELSE IF MaxLength # None /\ Len(s.s) > MaxLength.n THEN "Input too long"
     ELSE IF Regex # None /\ ~ReMatch(Regex, s).val THEN "Does not match regex"
     ELSE ""

\* The first check of a List node, in the order Length, MaxLength,
\* MinLength, that a list of n items violates; "" when it violates none.
FirstViolatedList(S, n) ==
  LET Length == DictGet(S, K_Length, None)
      MaxLength == DictGet(S, K_MaxLength, None)
      MinLength == DictGet(S, K_MinLength, None)
  IN IF Length # None /\ n # Length.n THEN "List must contain exactly Length items"
     ELSE IF MaxLength # None /\ n > MaxLength.n
     THEN "List must contain at most MaxLength items"
     ELSE IF MinLength # None /\ n < MinLength.n
     THEN "List must contain at least MinLength items"
     ELSE ""

\* C27: one execution of a node's code appends at most one record at the
\* node's own path, and appends it after the records of the nodes below;
\* the record of a String or Email node, and of a List node, is that of the
\* first check the value violates, in the order the checks were generated,
\* and there is none when the value violates no check.
C27_OneRecord ==
  \A i \in DOMAIN Done :
    LET e == Done[i]
        Own == {j \in DOMAIN e.errs : e.errs[j][1] = e.path}
    IN /\ Cardinality(Own) <= 1
       /\ Own # {} <=> e.caught
       /\ Own \subseteq {Len(e.errs)}
       /\ (/\ TypeOf(e.Struct) \in {T_String, T_Email} /\ e.ran
           /\ DictGet(e.Struct, K_Regex, None) # None =>
                ReMatch(DictGet(e.Struct, K_Regex, None), e.out).ok) =>
            OwnMessage(e) = FirstViolatedString(e.Struct, e.out)
       /\ (TypeOf(e.Struct) = T_List /\ e.ran /\ e.out.t = "list") =>
            OwnMessage(e) = FirstViolatedList(e.Struct, Len(e.out.xs))

\* The default of the node S violates a constraint of S: it does not coerce
\* to an integer or lies above '+MaxValue' at an Integer node; as the string
\* s it was coerced to, it violates a length or the pattern at a String or
\* Email node.
DefaultViolates(S, s) ==
  CASE TypeOf(S) = T_Integer ->
         \/ ~PyInt(DefaultOf(S)).ok
         \/ /\ DictGet(S, K_MaxValue, None) # None
            /\ PyInt(DefaultOf(S)).val.n > DictGet(S, K_MaxValue, None).n
    [] TypeOf(S) \in {T_String, T_Email} ->
         s.t = "str" /\ FirstViolatedString(S, s) # ""
    [] OTHER -> FALSE

\* C28: at a node with a non-null default whose input is None or absent,
\* the node's type handler runs on the default, and a default that violates
\* the node's own constraints adds a record at the node and the call fails,
\* on every such input.
C28_DefaultChecked ==
  \A i \in DOMAIN Done :
    LET e == Done[i]
    IN (DefaultOf(e.Struct) # None /\ e.in = None) =>
         /\ e.ran /\ e.arg = DefaultOf(e.Struct)
         /\ DefaultViolates(e.Struct, e.out) =>
              /\ e.caught
              /\ e.after[Len(e.after)][1] = e.path
              /\ out.kind = "raise"

\* C29: lindex_bool and lindex_int, like lindex_str, return the typed element
\* stored at the given index of the list, None when the list has no such
\* index, and leave the stored lists unchanged, after any sequence of push,
\* pop, set and index operations.
C29_LindexTyped ==
  reply.op \in {"lindex_bool", "lindex_int", "lindex_str"} =>
    LET l == reply.before[reply.args[1]]
        i == IF reply.args[2].n < 0 THEN Len(l) + reply.args[2].n + 1 ELSE reply.args[2].n + 1
        Typed_(value) ==
          CASE reply.op = "lindex_str" -> [ok |-> TRUE, val |-> Decode(value)]
            [] reply.op = "lindex_int" -> PyInt(StrV(value.s))
            [] reply.op = "lindex_bool" ->
                 IF PyInt(StrV(value.s)).ok
                 THEN [ok |-> TRUE, val |-> BoolV(PyInt(StrV(value.s)).val.n # 0)]
                 ELSE [ok |-> FALSE, val |-> None]
    IN /\ db = reply.before
       /\ i \notin DOMAIN l => reply.kind = "return" /\ reply.val = None
       /\ (i \in DOMAIN l /\ Typed_(l[i]).ok) =>
            reply.kind = "return" /\ reply.val = Typed_(l[i]).val

\* C30: in the demo application, starting from an empty dinner_name_list,
\* after any sequence of requests every stored name is non-empty after
\* stripping and at most 10 characters long; a name is pushed only by a POST
\* to /add whose name passes both checks, which then redirects to /, and a
\* rejected POST or any GET leaves the lists unchanged.
C30_StoredNames ==
  /\ \A i \in DOMAIN db["dinner_name_list"] :
       /\ Strip(Decode(db["dinner_name_list"][i]).s) # <<>>
       /\ Len(Decode(db["dinner_name_list"][i]).s) <= 10
  /\ reply.op # "" =>
       IF /\ reply.op = "add" /\ reply.args[1] = "POST" /\ reply.args[2] # NoValue
          /\ Strip(reply.args[2].s) # <<>> /\ Len(Strip(reply.args[2].s)) <= 10
       THEN /\ reply.kind = "302" /\ reply.val.location = "/"
            /\ db = [reply.before EXCEPT
                       !["dinner_name_list"] = <<Encode(StrV(Strip(reply.args[2].s)))>> \o @]
            /\ Decode(db["dinner_name_list"][1]) = StrV(Strip(reply.args[2].s))
       ELSE db = reply.before /\ reply.kind # "302"

\* A POST to /add of a padded name of ten characters was answered by a
\* redirect to / and put the stripped name at the head of the list, before a
\* name of ten characters and eleven bytes pushed earlier.
C30_Witness ==
  /\ reply.op = "add" /\ reply.args = <<"POST", StrV(<<" ">> \o D_Alexandria.s \o <<" ">>)>>
  /\ reply.kind = "302"
  /\ reply.before["dinner_name_list"] = <<Encode(D_Alexandrie)>>
  /\ Len(Encode(D_Alexandrie).s) = 11
  /\ db["dinner_name_list"] = <<Encode(D_Alexandria), Encode(D_Alexandrie)>>

=============================================================================
